---------------------------- MODULE Spec2Model ----------------------------
(***************************************************************************)
(* Model of src/src/expert_tool_ics.c: the screen/mode state machine of    *)
(* the compressor-inverter starter, its countdown, LED and hint timers,    *)
(* the input queue and the hardware it drives (PA7, TIM1 PWM, OTG 5 V).    *)
(*                                                                         *)
(* Every C function that changes state is an operator from a "world"       *)
(* record to a world record:                                               *)
(*    w.s   the AppState struct (the fields that drive behaviour)          *)
(*    w.hw  what the HAL calls have done to the hardware                   *)
(*    w.tm  the kernel timer objects behind the FuriTimer handles          *)
(* Timer callbacks run in the timer service thread; the main loop runs in  *)
(* the application thread and blocks only in furi_message_queue_get and in *)
(* the two modal dialogs.  A handler of the main loop is one action: a     *)
(* write a callback could make while a handler runs (remaining_ms,         *)
(* timeout_expired, led_on) is overwritten by that handler before it ends  *)
(* or leaves the state the callback leaves when it runs just before the    *)
(* handler, so the states between handlers are those of finer steps: the   *)
(* handlers stop a timer before they write what its callback writes.  The  *)
(* one exception is the short-BACK handler, which writes hint_visible and  *)
(* starts the hint timer afterwards; it is two steps, and hint_timer_cb of *)
(* an earlier BACK may run in between.                                     *)
(***************************************************************************)
EXTENDS Naturals, Integers, Sequences, FiniteSets, TLC

VARIABLES
    s,          \* AppState
    hw,         \* hardware as left by the HAL calls
    tm,         \* kernel timers: tick, off, led, hint
    q,          \* the input message queue (FIFO of InputEvent)
    pc,         \* where the application thread is
    exit_app    \* local flag of expert_tool_ics()

vars == <<s, hw, tm, q, pc, exit_app>>

(***************************************************************************)
(* Program constants                                                       *)
(***************************************************************************)
MODE_COUNT == 4
MAX_ROWS == 4
QUEUE_CAP == 8
CANVAS_H == 64
HELP_EMBRACO_COUNT == 38
HELP_SAMSUNG_COUNT == 1
TICK_MS == 1000
HINT_MS == 1500
PWM_DUTY == 50
SETTINGS_HEADER_ROW == 2
SELECT_INVERTER_ROWS == 2
SETTINGS_ROW_TOTAL == 5

InvEmbraco == "InvEmbraco"
InvSamsung == "InvSamsung"
InverterId == {InvEmbraco, InvSamsung}

ScreenSelectInverter == "ScreenSelectInverter"
ScreenMenu == "ScreenMenu"
ScreenHelp == "ScreenHelp"
ScreenSettings == "ScreenSettings"
ScreenId == {ScreenSelectInverter, ScreenMenu, ScreenHelp, ScreenSettings}

kModesTable ==
    << [name |-> "Stand by",  freq_hz |-> 0,   led_blink_hz |-> 0, default_secs |-> 0],
       [name |-> "Low speed", freq_hz |-> 55,  led_blink_hz |-> 1, default_secs |-> 120],
       [name |-> "Mid speed", freq_hz |-> 100, led_blink_hz |-> 2, default_secs |-> 60],
       [name |-> "Max speed", freq_hz |-> 160, led_blink_hz |-> 4, default_secs |-> 30] >>

\* kModes[idx], idx counted from 0 as in C
kModes(idx) == kModesTable[idx + 1]

(***************************************************************************)
(* Input events                                                            *)
(***************************************************************************)
InputType == {"Short", "Long", "Repeat"}
InputKey == {"Up", "Down", "Ok", "Back"}
InputEvent == [type : InputType, key : InputKey]
Ev(t, k) == [type |-> t, key |-> k]

(***************************************************************************)
(* Kernel timers behind FuriTimer.  A timer is armed or not; period is the *)
(* delay it was started with, left the time until it fires next, and over  *)
(* the time since a one-shot fired (until it is stopped or started again). *)
(***************************************************************************)
TimerIdle == [armed |-> FALSE, period |-> 0, left |-> 0, over |-> 0]

furi_timer_start(w, t, ms) ==
    [w EXCEPT !.tm[t] = [armed |-> TRUE, period |-> ms, left |-> ms, over |-> 0]]

\* a one-shot timer after its callback ran: dormant, its period kept
TimerFired(t) == [armed |-> FALSE, period |-> t.period, left |-> 0, over |-> 0]

furi_timer_stop(w, t) == [w EXCEPT !.tm[t] = TimerIdle]

(***************************************************************************)
(* Safe GPIO helpers and hardware PWM                                      *)
(***************************************************************************)
pin_to_hiz(w) == [w EXCEPT !.hw.pin = "hiz"]

pin_to_pp_low(w) == [w EXCEPT !.hw.pin = "pp_low"]

\* pwm_hw_stop_safe with its test inverted: it acts only on a stopped signal
pwm_hw_stop_safe_inverted(w) ==
    IF ~w.s.pwm_running
    THEN [w EXCEPT !.hw.pwm_freq = 0, !.hw.pwm_duty = 0, !.s.pwm_running = FALSE]
    ELSE w

pwm_hw_stop_safe(w) ==
    IF w.s.pwm_running
    THEN [w EXCEPT !.hw.pwm_freq = 0, !.hw.pwm_duty = 0, !.s.pwm_running = FALSE]
    ELSE w

pwm_hw_start_safe(w, freq_hz) ==
    [w EXCEPT !.hw.pwm_freq = freq_hz, !.hw.pwm_duty = PWM_DUTY,
              !.hw.pin = "pwm", !.s.pwm_running = TRUE]

(***************************************************************************)
(* 5 V helpers                                                             *)
(***************************************************************************)
\* inverter_power_5v switching the rail for either inverter
inverter_power_5v_any(w, inv, on) == [w EXCEPT !.hw.otg = on]

inverter_power_5v(w, inv, on) ==
    IF inv = InvSamsung THEN [w EXCEPT !.hw.otg = on] ELSE w

power_5v_set(w, on) == [w EXCEPT !.hw.otg = on]

(***************************************************************************)
(* LED helpers                                                             *)
(***************************************************************************)
led_set(w, on) == [w EXCEPT !.hw.led = on]

led_timer_cb(w) ==
    LET w1 == [w EXCEPT !.s.led_on = ~w.s.led_on]
    IN  led_set(w1, w1.s.led_on)

\* uint32_t ms = 1000U / (blink_hz * 2U); if(ms == 0) ms = 1;
led_period(blink_hz) ==
    LET ms == 1000 \div (blink_hz * 2)
    IN  IF ms = 0 THEN 1 ELSE ms

\* led_apply changing the period of the existing timer in place, the LED
\* left in the phase it is in
led_apply_in_place(w, blink_hz) ==
    LET w1 == IF w.s.led_timer
              THEN [furi_timer_stop(w, "led") EXCEPT !.s.led_timer = FALSE]
              ELSE w
        w2 == led_set([w1 EXCEPT !.s.led_on = FALSE], FALSE)
    IN  IF blink_hz = 0
        THEN w2
        ELSE furi_timer_start([w EXCEPT !.s.led_timer = TRUE], "led",
                              led_period(blink_hz))

led_apply(w, blink_hz) ==
    LET w1 == IF w.s.led_timer
              THEN [furi_timer_stop(w, "led") EXCEPT !.s.led_timer = FALSE]
              ELSE w
        w2 == led_set([w1 EXCEPT !.s.led_on = FALSE], FALSE)
    IN  IF blink_hz = 0
        THEN w2
        ELSE furi_timer_start([w2 EXCEPT !.s.led_timer = TRUE], "led",
                              led_period(blink_hz))

(***************************************************************************)
(* Countdown / auto-off timers                                             *)
(***************************************************************************)
\* tick_timer_cb counting remaining_ms down as if it held seconds
tick_timer_cb_counts_seconds(w) ==
    IF w.s.remaining_ms >= 1
    THEN [w EXCEPT !.s.remaining_ms = w.s.remaining_ms - 1]
    ELSE [w EXCEPT !.s.remaining_ms = 0]

tick_timer_cb(w) ==
    IF w.s.remaining_ms >= 1000
    THEN [w EXCEPT !.s.remaining_ms = w.s.remaining_ms - 1000]
    ELSE [w EXCEPT !.s.remaining_ms = 0]

\* off_timer_cb that zeroes the display but does not raise the flag
off_timer_cb_no_flag(w) == [w EXCEPT !.s.remaining_ms = 0]

off_timer_cb(w) ==
    [w EXCEPT !.s.remaining_ms = 0, !.s.timeout_expired = TRUE]

stop_timers(w) ==
    LET w1 == IF w.s.tick_timer THEN furi_timer_stop(w, "tick") ELSE w
    IN  IF w1.s.off_timer THEN furi_timer_stop(w1, "off") ELSE w1

free_timers(w) ==
    [w EXCEPT !.s.tick_timer = FALSE, !.s.off_timer = FALSE]

\* start_tick_timer_if_needed starting the one-shot with seconds for milliseconds
start_tick_timer_if_needed_secs(w) ==
    LET w1 == stop_timers(w)
        w2 == [w1 EXCEPT !.s.remaining_ms = 0, !.s.timeout_expired = FALSE]
        secs == kModes(w2.s.active).default_secs
        w3 == [w2 EXCEPT !.s.remaining_ms = secs * 1000,
                         !.s.tick_timer = TRUE, !.s.off_timer = TRUE]
        w4 == furi_timer_start(w3, "tick", TICK_MS)
    IN  IF ~w2.s.powered THEN w2
        ELSE IF ~w2.s.limit_runtime THEN w2
        ELSE IF w2.s.active = 0 THEN w2
        ELSE IF secs = 0 THEN w2
        ELSE furi_timer_start(w4, "off", secs)

\* start_tick_timer_if_needed that leaves a pending one-shot running to its
\* old deadline
start_tick_timer_if_needed_keeps_pending(w) ==
    LET w1 == stop_timers(w)
        w2 == [w1 EXCEPT !.s.remaining_ms = 0, !.s.timeout_expired = FALSE]
        secs == kModes(w2.s.active).default_secs
        w3 == [w2 EXCEPT !.s.remaining_ms = secs * 1000,
                         !.s.tick_timer = TRUE, !.s.off_timer = TRUE]
        w4 == furi_timer_start(w3, "tick", TICK_MS)
    IN  IF ~w2.s.powered THEN w2
        ELSE IF ~w2.s.limit_runtime THEN w2
        ELSE IF w2.s.active = 0 THEN w2
        ELSE IF secs = 0 THEN w2
        ELSE IF w.tm.off.armed THEN [w4 EXCEPT !.tm.off = w.tm.off]
        ELSE furi_timer_start(w4, "off", w4.s.remaining_ms)

start_tick_timer_if_needed(w) ==
    LET w1 == stop_timers(w)
        w2 == [w1 EXCEPT !.s.remaining_ms = 0, !.s.timeout_expired = FALSE]
        secs == kModes(w2.s.active).default_secs
        w3 == [w2 EXCEPT !.s.remaining_ms = secs * 1000,
                         !.s.tick_timer = TRUE, !.s.off_timer = TRUE]
        w4 == furi_timer_start(w3, "tick", TICK_MS)
    IN  IF ~w2.s.powered THEN w2
        ELSE IF ~w2.s.limit_runtime THEN w2
        ELSE IF w2.s.active = 0 THEN w2
        ELSE IF secs = 0 THEN w2
        ELSE furi_timer_start(w4, "off", w4.s.remaining_ms)

(***************************************************************************)
(* Mode application                                                        *)
(***************************************************************************)
\* apply_mode leaving a signal that is already running as it is
apply_mode_keeps_running(w, idx) ==
    IF idx >= MODE_COUNT THEN w
    ELSE
    LET w1 == [w EXCEPT !.s.active = idx]
        m == kModes(idx)
        stby == [stop_timers(pin_to_pp_low(pwm_hw_stop_safe(w1)))
                   EXCEPT !.s.remaining_ms = 0, !.s.timeout_expired = FALSE]
        run == start_tick_timer_if_needed(
                   IF w1.s.pwm_running THEN w1
                   ELSE pwm_hw_start_safe(w1, m.freq_hz))
    IN  led_apply(IF m.freq_hz = 0 THEN stby ELSE run, m.led_blink_hz)

\* apply_mode whose Stand by stops the signal but does not drive the pin
apply_mode_no_pin_low(w, idx) ==
    IF idx >= MODE_COUNT THEN w
    ELSE
    LET w1 == [w EXCEPT !.s.active = idx]
        m == kModes(idx)
        stby == [stop_timers(pwm_hw_stop_safe(w1))
                   EXCEPT !.s.remaining_ms = 0, !.s.timeout_expired = FALSE]
        run == start_tick_timer_if_needed(
                   pwm_hw_start_safe(pwm_hw_stop_safe(w1), m.freq_hz))
    IN  led_apply(IF m.freq_hz = 0 THEN stby ELSE run, m.led_blink_hz)

\* apply_mode recording the index before it is validated
apply_mode_sets_active_first(w, idx) ==
    IF idx >= MODE_COUNT THEN [w EXCEPT !.s.active = idx]
    ELSE
    LET w1 == [w EXCEPT !.s.active = idx]
        m == kModes(idx)
        stby == [stop_timers(pin_to_pp_low(pwm_hw_stop_safe(w1)))
                   EXCEPT !.s.remaining_ms = 0, !.s.timeout_expired = FALSE]
        run == start_tick_timer_if_needed(
                   pwm_hw_start_safe(pwm_hw_stop_safe(w1), m.freq_hz))
    IN  led_apply(IF m.freq_hz = 0 THEN stby ELSE run, m.led_blink_hz)

\* apply_mode that leaves the countdown of the mode already running as it is
apply_mode_keeps_countdown(w, idx) ==
    IF idx >= MODE_COUNT THEN w
    ELSE
    LET w1 == [w EXCEPT !.s.active = idx]
        m == kModes(idx)
        stby == [stop_timers(pin_to_pp_low(pwm_hw_stop_safe(w1)))
                   EXCEPT !.s.remaining_ms = 0, !.s.timeout_expired = FALSE]
        started == pwm_hw_start_safe(pwm_hw_stop_safe(w1), m.freq_hz)
        run == IF w.s.active = idx /\ w.tm.off.armed
               THEN started
               ELSE start_tick_timer_if_needed(started)
    IN  led_apply(IF m.freq_hz = 0 THEN stby ELSE run, m.led_blink_hz)

apply_mode(w, idx) ==
    IF idx >= MODE_COUNT THEN w
    ELSE
    LET w1 == [w EXCEPT !.s.active = idx]
        m == kModes(idx)
        stby == [stop_timers(pin_to_pp_low(pwm_hw_stop_safe(w1)))
                   EXCEPT !.s.remaining_ms = 0, !.s.timeout_expired = FALSE]
        run == start_tick_timer_if_needed(
                   pwm_hw_start_safe(pwm_hw_stop_safe(w1), m.freq_hz))
    IN  led_apply(IF m.freq_hz = 0 THEN stby ELSE run, m.led_blink_hz)

\* the HAL calls inside pwm_hw_stop_safe and pwm_hw_start_safe, before the
\* caller's flag is written
furi_hal_pwm_stop(w) == [w EXCEPT !.hw.pwm_freq = 0, !.hw.pwm_duty = 0]

furi_hal_pwm_start(w, freq_hz) ==
    [w EXCEPT !.hw.pwm_freq = freq_hz, !.hw.pwm_duty = PWM_DUTY, !.hw.pin = "pwm"]

\* apply_mode for a mode with a frequency, statement by statement: the
\* states it passes through, from the state at the call to the state at
\* return
apply_mode_trace(w, idx) ==
    LET w1 == [w EXCEPT !.s.active = idx]
        m == kModes(idx)
        w2 == IF w1.s.pwm_running THEN furi_hal_pwm_stop(w1) ELSE w1
        w3 == pwm_hw_stop_safe(w1)
        w4 == furi_hal_pwm_start(w3, m.freq_hz)
        w5 == pwm_hw_start_safe(w3, m.freq_hz)
        w6 == start_tick_timer_if_needed(w5)
        w7 == led_apply(w6, m.led_blink_hz)
    IN  <<w, w1, w2, w3, w4, w5, w6, w7>>

\* hint_timer_cb that also moves the cursor back to the first row
hint_timer_cb_resets_cursor(w) ==
    [w EXCEPT !.s.hint_visible = FALSE, !.s.cursor = 0]

hint_timer_cb(w) == [w EXCEPT !.s.hint_visible = FALSE]

(***************************************************************************)
(* State transitions for power                                             *)
(***************************************************************************)
\* enter_safe_menu that does not update the indicator
enter_safe_menu_keeps_led(w) ==
    LET w1 == [w EXCEPT !.s.powered = FALSE, !.s.cursor = 0, !.s.first_visible = 0]
        w2 == power_5v_set(pin_to_hiz(pwm_hw_stop_safe(w1)), FALSE)
        w3 == stop_timers(w2)
    IN  [w3 EXCEPT !.s.remaining_ms = 0, !.s.timeout_expired = FALSE]

\* enter_safe_menu that leaves the cursor and the window where they are
enter_safe_menu_keeps_cursor(w) ==
    LET w1 == [w EXCEPT !.s.powered = FALSE]
        w2 == power_5v_set(pin_to_hiz(pwm_hw_stop_safe(w1)), FALSE)
        w3 == stop_timers(led_apply(w2, 0))
    IN  [w3 EXCEPT !.s.remaining_ms = 0, !.s.timeout_expired = FALSE]

\* enter_safe_menu switching the 5 V rail off through the per-inverter helper
enter_safe_menu_inverter_5v(w) ==
    LET w1 == [w EXCEPT !.s.powered = FALSE, !.s.cursor = 0, !.s.first_visible = 0]
        w2 == inverter_power_5v(pin_to_hiz(pwm_hw_stop_safe(w1)), w1.s.inverter, FALSE)
        w3 == stop_timers(led_apply(w2, 0))
    IN  [w3 EXCEPT !.s.remaining_ms = 0, !.s.timeout_expired = FALSE]

\* enter_safe_menu that leaves timeout_expired as it is
enter_safe_menu_keeps_flag(w) ==
    LET w1 == [w EXCEPT !.s.powered = FALSE, !.s.cursor = 0, !.s.first_visible = 0]
        w2 == power_5v_set(pin_to_hiz(pwm_hw_stop_safe(w1)), FALSE)
        w3 == stop_timers(led_apply(w2, 0))
    IN  [w3 EXCEPT !.s.remaining_ms = 0]

enter_safe_menu(w) ==
    LET w1 == [w EXCEPT !.s.powered = FALSE, !.s.cursor = 0, !.s.first_visible = 0]
        w2 == power_5v_set(pin_to_hiz(pwm_hw_stop_safe(w1)), FALSE)
        w3 == stop_timers(led_apply(w2, 0))
    IN  [w3 EXCEPT !.s.remaining_ms = 0, !.s.timeout_expired = FALSE]

\* enter_safe_menu with the timer thread running off_timer_cb of a pending
\* one-shot inside it, after powered is cleared and before stop_timers
enter_safe_menu_interrupted(w) ==
    LET w1 == [w EXCEPT !.s.powered = FALSE, !.s.cursor = 0, !.s.first_visible = 0]
        cb == IF w1.tm.off.armed
              THEN [off_timer_cb(w1) EXCEPT !.tm.off = TimerFired(w1.tm.off)]
              ELSE w1
        w2 == power_5v_set(pin_to_hiz(pwm_hw_stop_safe(cb)), FALSE)
        w3 == stop_timers(led_apply(w2, 0))
    IN  [w3 EXCEPT !.s.remaining_ms = 0, !.s.timeout_expired = FALSE]

\* enter_powered_menu_standby that does not apply Stand by
enter_powered_menu_standby_no_apply(w) ==
    LET w1 == [w EXCEPT !.s.powered = TRUE, !.s.cursor = 0, !.s.first_visible = 0,
                        !.s.active = 0]
    IN  inverter_power_5v(w1, w1.s.inverter, TRUE)

\* enter_powered_menu_standby that leaves the 5 V rail as it is
enter_powered_menu_standby_no_5v(w) ==
    LET w1 == [w EXCEPT !.s.powered = TRUE, !.s.cursor = 0, !.s.first_visible = 0]
    IN  apply_mode(w1, 0)

enter_powered_menu_standby(w) ==
    LET w1 == [w EXCEPT !.s.powered = TRUE, !.s.cursor = 0, !.s.first_visible = 0]
    IN  apply_mode(inverter_power_5v(w1, w1.s.inverter, TRUE), 0)

(***************************************************************************)
(* Help layout math                                                        *)
(***************************************************************************)
help_max_lines ==
    LET ml == (CANVAS_H - 10) \div 9
    IN  IF ml < 1 THEN 1 ELSE ml

help_layout_params(total_lines) ==
    [max_lines |-> help_max_lines,
     max_top_line |-> IF total_lines > help_max_lines
                      THEN total_lines - help_max_lines ELSE 0]

help_total_lines(inv) ==
    IF inv = InvEmbraco THEN HELP_EMBRACO_COUNT ELSE HELP_SAMSUNG_COUNT

(***************************************************************************)
(* Per-screen input logic of the main loop (the switch on s.screen).       *)
(* confirm is what the modal dialog returns on the two paths that show one.*)
(***************************************************************************)
\* the short-BACK handler: s.hint_visible = true ...
hint_show(w) == [w EXCEPT !.s.hint_visible = TRUE]

\* ... then the hint timer is allocated once and started
hint_timer_start(w) ==
    furi_timer_start([w EXCEPT !.s.hint_timer = TRUE], "hint", HINT_MS)

\* the short-BACK handler as a whole
show_hint(w) ==
    furi_timer_start([w EXCEPT !.s.hint_visible = TRUE, !.s.hint_timer = TRUE],
                     "hint", HINT_MS)

\* input_select_inverter whose OK keeps the inverter chosen at start-up
input_select_inverter_keeps(w, ev) ==
    IF ev.type \in {"Short", "Repeat"} THEN
        CASE ev.key = "Up"   -> [w EXCEPT !.s.cursor = IF w.s.cursor = 0 THEN 1 ELSE 0]
          [] ev.key = "Down" -> [w EXCEPT !.s.cursor = IF w.s.cursor = 1 THEN 0 ELSE 1]
          [] ev.key = "Ok"   -> [enter_safe_menu(w) EXCEPT !.s.screen = ScreenMenu]
          [] ev.key = "Back" -> show_hint(w)
          [] OTHER -> w
    ELSE w

input_select_inverter(w, ev) ==
    IF ev.type \in {"Short", "Repeat"} THEN
        CASE ev.key = "Up"   -> [w EXCEPT !.s.cursor = IF w.s.cursor = 0 THEN 1 ELSE 0]
          [] ev.key = "Down" -> [w EXCEPT !.s.cursor = IF w.s.cursor = 1 THEN 0 ELSE 1]
          [] ev.key = "Ok"   ->
                LET w1 == [w EXCEPT !.s.inverter =
                               IF w.s.cursor = 0 THEN InvEmbraco ELSE InvSamsung]
                IN  [enter_safe_menu(w1) EXCEPT !.s.screen = ScreenMenu]
          [] ev.key = "Back" -> show_hint(w)
          [] OTHER -> w
    ELSE w

menu_row_total(w) == IF w.s.powered THEN MODE_COUNT + 3 ELSE 3

cursor_up(w, row_total) ==
    IF w.s.cursor = 0
    THEN [w EXCEPT !.s.cursor = row_total - 1,
                   !.s.first_visible = IF row_total > MAX_ROWS
                                       THEN row_total - MAX_ROWS ELSE 0]
    ELSE LET c == w.s.cursor - 1
         IN  [w EXCEPT !.s.cursor = c,
                       !.s.first_visible = IF c < w.s.first_visible
                                           THEN c ELSE w.s.first_visible]

\* cursor_down that moves the cursor but never scrolls the window
cursor_down_no_scroll(w, row_total) ==
    IF w.s.cursor = row_total - 1
    THEN [w EXCEPT !.s.cursor = 0, !.s.first_visible = 0]
    ELSE [w EXCEPT !.s.cursor = w.s.cursor + 1]

cursor_down(w, row_total) ==
    IF w.s.cursor = row_total - 1
    THEN [w EXCEPT !.s.cursor = 0, !.s.first_visible = 0]
    ELSE LET c == w.s.cursor + 1
         IN  [w EXCEPT !.s.cursor = c,
                       !.s.first_visible = IF c >= w.s.first_visible + MAX_ROWS
                                           THEN c - (MAX_ROWS - 1)
                                           ELSE w.s.first_visible]

\* open_settings that falls back to Stand by
open_settings_standby(w) ==
    apply_mode([w EXCEPT !.s.screen = ScreenSettings, !.s.cursor = 0,
                         !.s.first_visible = 0], 0)

open_settings(w) ==
    [w EXCEPT !.s.screen = ScreenSettings, !.s.cursor = 0, !.s.first_visible = 0]

open_help(w) == [w EXCEPT !.s.screen = ScreenHelp, !.s.help_top_line = 0]

\* menu_ok powering on whatever the dialog returned
menu_ok_unconfirmed(w, confirm) ==
    IF w.s.powered
    THEN IF w.s.cursor < MODE_COUNT THEN apply_mode(w, w.s.cursor)
         ELSE IF w.s.cursor = MODE_COUNT THEN enter_safe_menu(w)
         ELSE IF w.s.cursor = MODE_COUNT + 1 THEN open_settings(w)
         ELSE open_help(enter_safe_menu(w))
    ELSE IF w.s.cursor = 0
         THEN enter_powered_menu_standby(w)
         ELSE IF w.s.cursor = 1 THEN open_settings(w)
         ELSE open_help(w)

\* menu_ok opening Help from the powered Menu without entering the safe state
menu_ok_help_keeps_power(w, confirm) ==
    IF w.s.powered
    THEN IF w.s.cursor < MODE_COUNT THEN apply_mode(w, w.s.cursor)
         ELSE IF w.s.cursor = MODE_COUNT THEN enter_safe_menu(w)
         ELSE IF w.s.cursor = MODE_COUNT + 1 THEN open_settings(w)
         ELSE open_help(w)
    ELSE IF w.s.cursor = 0
         THEN (IF confirm THEN enter_powered_menu_standby(w) ELSE w)
         ELSE IF w.s.cursor = 1 THEN open_settings(w)
         ELSE open_help(w)

menu_ok(w, confirm) ==
    IF w.s.powered
    THEN IF w.s.cursor < MODE_COUNT THEN apply_mode(w, w.s.cursor)
         ELSE IF w.s.cursor = MODE_COUNT THEN enter_safe_menu(w)
         ELSE IF w.s.cursor = MODE_COUNT + 1 THEN open_settings(w)
         ELSE open_help(enter_safe_menu(w))
    ELSE IF w.s.cursor = 0
         THEN (IF confirm THEN enter_powered_menu_standby(w) ELSE w)
         ELSE IF w.s.cursor = 1 THEN open_settings(w)
         ELSE open_help(w)

input_menu(w, ev, confirm) ==
    IF ev.type = "Short" THEN
        CASE ev.key = "Up"   -> cursor_up(w, menu_row_total(w))
          [] ev.key = "Down" -> cursor_down(w, menu_row_total(w))
          [] ev.key = "Ok"   -> menu_ok(w, confirm)
          [] ev.key = "Back" -> show_hint(w)
          [] OTHER -> w
    ELSE w

\* input_help whose Back leads to the inverter selection
input_help_back_to_select(w, ev) ==
    IF ev.type \in {"Short", "Repeat"} THEN
        LET lp == help_layout_params(help_total_lines(w.s.inverter))
        IN  CASE ev.key = "Up" ->
                    IF w.s.help_top_line > 0
                    THEN [w EXCEPT !.s.help_top_line = w.s.help_top_line - 1] ELSE w
              [] ev.key = "Down" ->
                    IF w.s.help_top_line < lp.max_top_line
                    THEN [w EXCEPT !.s.help_top_line = w.s.help_top_line + 1] ELSE w
              [] ev.key = "Back" -> [w EXCEPT !.s.screen = ScreenSelectInverter]
              [] OTHER -> w
    ELSE w

\* input_help scrolling down while the offset is not beyond the last line
input_help_scrolls_past_end(w, ev) ==
    IF ev.type \in {"Short", "Repeat"} THEN
        LET lp == help_layout_params(help_total_lines(w.s.inverter))
        IN  CASE ev.key = "Up" ->
                    IF w.s.help_top_line > 0
                    THEN [w EXCEPT !.s.help_top_line = w.s.help_top_line - 1] ELSE w
              [] ev.key = "Down" ->
                    IF w.s.help_top_line <= lp.max_top_line
                    THEN [w EXCEPT !.s.help_top_line = w.s.help_top_line + 1] ELSE w
              [] ev.key = "Back" -> [w EXCEPT !.s.screen = ScreenMenu]
              [] OTHER -> w
    ELSE w

input_help(w, ev) ==
    IF ev.type \in {"Short", "Repeat"} THEN
        LET lp == help_layout_params(help_total_lines(w.s.inverter))
        IN  CASE ev.key = "Up" ->
                    IF w.s.help_top_line > 0
                    THEN [w EXCEPT !.s.help_top_line = w.s.help_top_line - 1] ELSE w
              [] ev.key = "Down" ->
                    IF w.s.help_top_line < lp.max_top_line
                    THEN [w EXCEPT !.s.help_top_line = w.s.help_top_line + 1] ELSE w
              [] ev.key = "Back" -> [w EXCEPT !.s.screen = ScreenMenu]
              [] OTHER -> w
    ELSE w

settings_up(w) ==
    IF w.s.cursor = 0
    THEN cursor_up(w, SETTINGS_ROW_TOTAL)
    ELSE LET c0 == w.s.cursor - 1
             c == IF c0 = 2 THEN 1 ELSE c0
         IN  [w EXCEPT !.s.cursor = c,
                       !.s.first_visible = IF c < w.s.first_visible
                                           THEN c ELSE w.s.first_visible]

\* settings_down that does not skip the header row
settings_down_no_skip(w) ==
    IF w.s.cursor = SETTINGS_ROW_TOTAL - 1
    THEN cursor_down(w, SETTINGS_ROW_TOTAL)
    ELSE LET c == w.s.cursor + 1
         IN  [w EXCEPT !.s.cursor = c,
                       !.s.first_visible = IF c >= w.s.first_visible + MAX_ROWS
                                           THEN c - (MAX_ROWS - 1)
                                           ELSE w.s.first_visible]

settings_down(w) ==
    IF w.s.cursor = SETTINGS_ROW_TOTAL - 1
    THEN cursor_down(w, SETTINGS_ROW_TOTAL)
    ELSE LET c0 == w.s.cursor + 1
             c == IF c0 = 2 THEN 3 ELSE c0
         IN  [w EXCEPT !.s.cursor = c,
                       !.s.first_visible = IF c >= w.s.first_visible + MAX_ROWS
                                           THEN c - (MAX_ROWS - 1)
                                           ELSE w.s.first_visible]

\* limit_runtime_off without the call of stop_timers
limit_runtime_off_keeps_timers(w) ==
    [w EXCEPT !.s.limit_runtime = FALSE, !.s.remaining_ms = 0]

\* limit_runtime_off that also drops a pending expiry
limit_runtime_off_clears_flag(w) ==
    [stop_timers([w EXCEPT !.s.limit_runtime = FALSE])
        EXCEPT !.s.remaining_ms = 0, !.s.timeout_expired = FALSE]

\* limit_runtime_off that stops the timers and leaves remaining_ms as it is
limit_runtime_off_keeps_remaining(w) ==
    stop_timers([w EXCEPT !.s.limit_runtime = FALSE])

limit_runtime_off(w) ==
    [stop_timers([w EXCEPT !.s.limit_runtime = FALSE]) EXCEPT !.s.remaining_ms = 0]

\* select_inverter storing the inverter and returning to the Menu without
\* entering the safe state
select_inverter_no_safe(w, inv) ==
    IF w.s.inverter # inv
    THEN [w EXCEPT !.s.inverter = inv, !.s.screen = ScreenMenu,
                   !.s.cursor = 0, !.s.first_visible = 0]
    ELSE w

select_inverter(w, inv) ==
    IF w.s.inverter # inv
    THEN [enter_safe_menu([w EXCEPT !.s.inverter = inv]) EXCEPT !.s.screen = ScreenMenu]
    ELSE w

\* settings_ok whose declined alert still stops the countdown timers
settings_ok_cancel_stops(w, confirm) ==
    CASE w.s.cursor = 0 ->
            IF w.s.limit_runtime
            THEN (IF confirm THEN limit_runtime_off(w) ELSE stop_timers(w))
            ELSE start_tick_timer_if_needed([w EXCEPT !.s.limit_runtime = TRUE])
      [] w.s.cursor = 1 -> [w EXCEPT !.s.arrow_captcha = ~w.s.arrow_captcha]
      [] w.s.cursor = 3 -> select_inverter(w, InvEmbraco)
      [] w.s.cursor = 4 -> select_inverter(w, InvSamsung)
      [] OTHER -> w

settings_ok(w, confirm) ==
    CASE w.s.cursor = 0 ->
            IF w.s.limit_runtime
            THEN (IF confirm THEN limit_runtime_off(w) ELSE w)
            ELSE start_tick_timer_if_needed([w EXCEPT !.s.limit_runtime = TRUE])
      [] w.s.cursor = 1 -> [w EXCEPT !.s.arrow_captcha = ~w.s.arrow_captcha]
      [] w.s.cursor = 3 -> select_inverter(w, InvEmbraco)
      [] w.s.cursor = 4 -> select_inverter(w, InvSamsung)
      [] OTHER -> w

input_settings(w, ev, confirm) ==
    IF ev.type = "Short" THEN
        CASE ev.key = "Up"   -> settings_up(w)
          [] ev.key = "Down" -> settings_down(w)
          [] ev.key = "Ok"   -> settings_ok(w, confirm)
          [] ev.key = "Back" ->
                [w EXCEPT !.s.screen = ScreenMenu, !.s.cursor = 0, !.s.first_visible = 0]
          [] OTHER -> w
    ELSE w

\* the switch(s.screen) of the main loop
dispatch_input(w, ev, confirm) ==
    CASE w.s.screen = ScreenSelectInverter -> input_select_inverter(w, ev)
      [] w.s.screen = ScreenMenu           -> input_menu(w, ev, confirm)
      [] w.s.screen = ScreenHelp           -> input_help(w, ev)
      [] w.s.screen = ScreenSettings       -> input_settings(w, ev, confirm)

\* the event reaches show_power_on_confirm()
needs_power_on_confirm(w, ev) ==
    /\ w.s.screen = ScreenMenu /\ ev = Ev("Short", "Ok")
    /\ ~w.s.powered /\ w.s.cursor = 0

\* the event reaches the short-BACK handler of SelectInverter or Menu
needs_hint(w, ev) ==
    /\ ev.key = "Back"
    /\ \/ w.s.screen = ScreenSelectInverter /\ ev.type \in {"Short", "Repeat"}
       \/ w.s.screen = ScreenMenu /\ ev.type = "Short"

\* the event reaches show_limit_alert_confirm()
needs_limit_alert_confirm(w, ev) ==
    /\ w.s.screen = ScreenSettings /\ ev = Ev("Short", "Ok")
    /\ w.s.cursor = 0 /\ w.s.limit_runtime

\* the cleanup leaving the 5 V rail as it is
cleanup_keeps_5v(w) ==
    LET w1 == IF w.s.led_timer
              THEN [furi_timer_stop(w, "led") EXCEPT !.s.led_timer = FALSE] ELSE w
        w2 == IF w1.s.hint_timer
              THEN [furi_timer_stop(w1, "hint") EXCEPT !.s.hint_timer = FALSE] ELSE w1
        w3 == free_timers(stop_timers(w2))
    IN  led_set(pin_to_hiz(pwm_hw_stop_safe(w3)), FALSE)

\* the cleanup statement by statement: the states it passes through, from
\* the state the loop ended in to the state at return
cleanup_trace(w) ==
    LET w1 == IF w.s.led_timer
              THEN [furi_timer_stop(w, "led") EXCEPT !.s.led_timer = FALSE] ELSE w
        w2 == IF w1.s.hint_timer
              THEN [furi_timer_stop(w1, "hint") EXCEPT !.s.hint_timer = FALSE] ELSE w1
        w3 == stop_timers(w2)
        w4 == free_timers(w3)
        w5 == pwm_hw_stop_safe(w4)
        w6 == pin_to_hiz(w5)
        w7 == power_5v_set(w6, FALSE)
        w8 == led_set(w7, FALSE)
    IN  <<w, w1, w2, w3, w4, w5, w6, w7, w8>>

\* the cleanup after the main loop
cleanup(w) ==
    LET w1 == IF w.s.led_timer
              THEN [furi_timer_stop(w, "led") EXCEPT !.s.led_timer = FALSE] ELSE w
        w2 == IF w1.s.hint_timer
              THEN [furi_timer_stop(w1, "hint") EXCEPT !.s.hint_timer = FALSE] ELSE w1
        w3 == free_timers(stop_timers(w2))
        w4 == power_5v_set(pin_to_hiz(pwm_hw_stop_safe(w3)), FALSE)
    IN  led_set(w4, FALSE)

(***************************************************************************)
(* Bounds of the model                                                     *)
(***************************************************************************)
\* events the input source may have pending in the queue at once
MaxPending == 1
\* tick callbacks explored per arming while the expiry is still pending
MaxTicks == 2
\* how far the user scrolls the help text down
MaxHelpScroll == 1

\* the events the input source sends
Events ==
    { Ev("Short", "Up"), Ev("Short", "Down"), Ev("Short", "Ok"), Ev("Short", "Back"),
      Ev("Long", "Back"), Ev("Long", "Ok"), Ev("Repeat", "Down") }

(***************************************************************************)
(* The state machine                                                       *)
(***************************************************************************)
World == [s |-> s, hw |-> hw, tm |-> tm]

Set(w) == s' = w.s /\ hw' = w.hw /\ tm' = w.tm

\* expert_tool_ics() up to the first iteration of the main loop
Init ==
    /\ s = [screen |-> ScreenSelectInverter, inverter |-> InvEmbraco,
            powered |-> FALSE, cursor |-> 0, first_visible |-> 0, active |-> 0,
            help_top_line |-> 0, limit_runtime |-> TRUE, arrow_captcha |-> TRUE,
            led_timer |-> FALSE, led_on |-> FALSE, pwm_running |-> FALSE,
            hint_visible |-> FALSE, hint_timer |-> FALSE,
            tick_timer |-> FALSE, off_timer |-> FALSE,
            remaining_ms |-> 0, timeout_expired |-> FALSE]
    /\ hw = [pin |-> "hiz", pwm_freq |-> 0, pwm_duty |-> 0, otg |-> FALSE, led |-> FALSE]
    /\ tm = [tick |-> TimerIdle, off |-> TimerIdle, led |-> TimerIdle, hint |-> TimerIdle]
    /\ q = << >>
    /\ pc = "loop"
    /\ exit_app = FALSE

\* vp_input_cb writing over the oldest event when the queue is full
vp_input_cb_overwrites(ev) ==
    /\ pc # "done"
    /\ q' = IF Len(q) < QUEUE_CAP THEN Append(q, ev) ELSE Append(Tail(q), ev)
    /\ UNCHANGED <<s, hw, tm, pc, exit_app>>

\* vp_input_cb: furi_message_queue_put with timeout 0 drops the event when full
vp_input_cb(ev) ==
    /\ pc # "done"
    /\ q' = IF Len(q) < QUEUE_CAP THEN Append(q, ev) ELSE q
    /\ UNCHANGED <<s, hw, tm, pc, exit_app>>

ScrollsDown(e) == e.key = "Down" /\ e.type \in {"Short", "Repeat"}

PendingDown == Cardinality({i \in 1..Len(q) : ScrollsDown(q[i])})

\* the body of the loop with a Back of any type ending the loop
loop_body_back_exits(w, ev) ==
    IF ev.key = "Back"
    THEN [exit |-> TRUE, pc |-> "loop", w |-> w]
    ELSE IF needs_power_on_confirm(w, ev)
    THEN [exit |-> FALSE, pc |-> "show_power_on_confirm", w |-> w]
    ELSE IF needs_limit_alert_confirm(w, ev)
    THEN [exit |-> FALSE, pc |-> "show_limit_alert_confirm", w |-> w]
    ELSE IF needs_hint(w, ev)
    THEN [exit |-> FALSE, pc |-> "hint_timer_start", w |-> hint_show(w)]
    ELSE [exit |-> FALSE, pc |-> "loop", w |-> dispatch_input(w, ev, FALSE)]

\* the body of the loop for a dequeued event, up to the next blocking call:
\* whether it sets exit_app, where the loop is next, and the state it leaves
loop_body(w, ev) ==
    IF ev = Ev("Long", "Back")
    THEN [exit |-> TRUE, pc |-> "loop", w |-> w]
    ELSE IF needs_power_on_confirm(w, ev)
    THEN [exit |-> FALSE, pc |-> "show_power_on_confirm", w |-> w]
    ELSE IF needs_limit_alert_confirm(w, ev)
    THEN [exit |-> FALSE, pc |-> "show_limit_alert_confirm", w |-> w]
    ELSE IF needs_hint(w, ev)
    THEN [exit |-> FALSE, pc |-> "hint_timer_start", w |-> hint_show(w)]
    ELSE [exit |-> FALSE, pc |-> "loop", w |-> dispatch_input(w, ev, FALSE)]

\* what the loop does with a dequeued event, up to the next blocking call
ProcessEvent(ev) ==
    LET r == loop_body(World, ev)
    IN  /\ exit_app' = (exit_app \/ r.exit)
        /\ pc' = r.pc
        /\ Set(r.w)

\* the bound on scrolling the help text
WithinScroll(ev) ==
    (s.screen = ScreenHelp /\ ScrollsDown(ev))
        => s.help_top_line + PendingDown < MaxHelpScroll

\* the input source sends an event while the loop is inside a modal dialog:
\* the event waits in the queue
InputQueued ==
    \E ev \in Events :
        /\ pc \in {"show_power_on_confirm", "show_limit_alert_confirm"}
        /\ Len(q) < MaxPending
        /\ WithinScroll(ev)
        /\ vp_input_cb(ev)

\* the input source sends an event while the loop is blocked in
\* furi_message_queue_get on the empty queue: vp_input_cb queues it and the
\* get returns it
InputWhileWaiting ==
    \E ev \in Events :
        /\ pc = "get" /\ q = << >>
        /\ WithinScroll(ev)
        /\ ProcessEvent(ev)
        /\ UNCHANGED q

\* if(s.timeout_expired) { s.timeout_expired = false; enter_powered_menu_standby }
poll_timeout(w) ==
    IF w.s.timeout_expired
    THEN enter_powered_menu_standby([w EXCEPT !.s.timeout_expired = FALSE])
    ELSE w

\* while(!exit_app) { if(s.timeout_expired) {...} : the top of an iteration
MainLoopTop ==
    /\ pc = "loop" /\ ~exit_app
    /\ Set(poll_timeout(World))
    /\ pc' = "get"
    /\ UNCHANGED <<q, exit_app>>

\* furi_message_queue_get returns the event at the head of the queue
MainGet ==
    /\ pc = "get" /\ q # << >>
    /\ q' = Tail(q)
    /\ ProcessEvent(Head(q))

\* furi_message_queue_get times out after 100 ms
MainGetTimeout ==
    /\ pc = "get" /\ q = << >>
    /\ pc' = "loop"
    /\ UNCHANGED <<s, hw, tm, q, exit_app>>

\* the user answers the modal dialog: dialog_message_show returns
DialogReturn ==
    /\ pc \in {"show_power_on_confirm", "show_limit_alert_confirm"}
    /\ \E confirm \in BOOLEAN :
          pc' = CASE pc = "show_power_on_confirm" /\ confirm  -> "power_on_confirmed"
                  [] pc = "show_power_on_confirm" /\ ~confirm -> "power_on_cancelled"
                  [] pc = "show_limit_alert_confirm" /\ confirm  -> "limit_alert_confirmed"
                  [] pc = "show_limit_alert_confirm" /\ ~confirm -> "limit_alert_cancelled"
    /\ UNCHANGED <<s, hw, tm, q, exit_app>>

\* the handler of Short/Ok goes on with what the dialog returned
AfterDialog ==
    /\ pc \in {"power_on_confirmed", "power_on_cancelled",
               "limit_alert_confirmed", "limit_alert_cancelled"}
    /\ Set(dispatch_input(World, Ev("Short", "Ok"),
                          pc \in {"power_on_confirmed", "limit_alert_confirmed"}))
    /\ pc' = "loop"
    /\ UNCHANGED <<q, exit_app>>

\* the short-BACK handler goes on: the hint timer is started
HintTimerStart ==
    /\ pc = "hint_timer_start"
    /\ Set(hint_timer_start(World))
    /\ pc' = "loop"
    /\ UNCHANGED <<q, exit_app>>

\* the loop ends: cleanup, the queue is freed, return 0
MainExit ==
    /\ pc = "loop" /\ exit_app
    /\ Set(cleanup(World))
    /\ q' = << >>
    /\ pc' = "done"
    /\ UNCHANGED exit_app

\* the periodic tick timer fires
TickFire ==
    /\ Set([tick_timer_cb(World) EXCEPT !.tm.tick.left = tm.tick.period])
    /\ UNCHANGED <<q, pc, exit_app>>

\* the one-shot off timer fires
OffFire ==
    /\ Set([off_timer_cb(World) EXCEPT !.tm.off = TimerFired(tm.off)])
    /\ UNCHANGED <<q, pc, exit_app>>

TicksSinceArm == (kModes(s.active).default_secs * 1000 - s.remaining_ms) \div 1000

TickTimerCb ==
    /\ tm.tick.armed
    /\ s.remaining_ms = 0 \/ TicksSinceArm < MaxTicks
    /\ TickFire

OffTimerCb == tm.off.armed /\ OffFire

LedTimerCb ==
    /\ tm.led.armed
    /\ Set(led_timer_cb(World))
    /\ UNCHANGED <<q, pc, exit_app>>

HintTimerCb ==
    /\ tm.hint.armed
    /\ Set([hint_timer_cb(World) EXCEPT !.tm.hint = TimerIdle])
    /\ UNCHANGED <<q, pc, exit_app>>

Next ==
    \/ InputQueued
    \/ InputWhileWaiting
    \/ MainLoopTop
    \/ MainGet
    \/ MainGetTimeout
    \/ DialogReturn
    \/ AfterDialog
    \/ HintTimerStart
    \/ MainExit
    \/ TickTimerCb
    \/ OffTimerCb
    \/ LedTimerCb
    \/ HintTimerCb

Spec == Init /\ [][Next]_vars

(***************************************************************************)
(* Scheduling: the kernel runs the callback of a pending hint timer, and   *)
(* the application thread, once inside the short-BACK handler, goes on to  *)
(* start the timer.                                                        *)
(***************************************************************************)
SpecFair == Spec /\ WF_vars(HintTimerCb) /\ WF_vars(HintTimerStart)

(***************************************************************************)
(* The same machine with simulated time.  Time advances in steps of the    *)
(* tick period; the countdown timers fire when their time is up and time   *)
(* does not pass a timer that is due.  The application thread takes no     *)
(* time except where it blocks: a queue wait ends within its 100 ms        *)
(* timeout, so a pending flag or event is seen before the next step of     *)
(* time, while a modal dialog blocks for as long as the user takes.        *)
(***************************************************************************)
POLL_MS == 100

\* the kernel's timer service over one step of time: a timer whose time is
\* up runs its callback; a periodic one is armed again, a one-shot goes dormant
elapse_tick(w) ==
    IF ~w.tm.tick.armed THEN w
    ELSE IF w.tm.tick.left > TICK_MS
    THEN [w EXCEPT !.tm.tick.left = w.tm.tick.left - TICK_MS]
    ELSE [tick_timer_cb(w) EXCEPT !.tm.tick.left = w.tm.tick.period]

elapse_off(w) ==
    IF w.tm.off.armed
    THEN IF w.tm.off.left > TICK_MS
         THEN [w EXCEPT !.tm.off.left = w.tm.off.left - TICK_MS]
         ELSE [off_timer_cb(w) EXCEPT !.tm.off = TimerFired(w.tm.off)]
    ELSE IF w.tm.off.period > 0 /\ w.tm.off.over < TICK_MS
         THEN [w EXCEPT !.tm.off.over = w.tm.off.over + TICK_MS]
         ELSE w

\* TICK_MS of time pass
Tock ==
    /\ pc \in {"get", "show_power_on_confirm", "show_limit_alert_confirm"}
    /\ pc = "get" => (q = << >> /\ ~s.timeout_expired)
    /\ Set(elapse_off(elapse_tick(World)))
    /\ UNCHANGED <<q, pc, exit_app>>

NextTimed ==
    \/ InputQueued
    \/ InputWhileWaiting
    \/ MainLoopTop
    \/ MainGet
    \/ MainGetTimeout
    \/ DialogReturn
    \/ AfterDialog
    \/ HintTimerStart
    \/ MainExit
    \/ Tock

SpecTimed == Init /\ [][NextTimed]_vars

(***************************************************************************)
(* The same machine under a burst of key presses: the input source sends   *)
(* events at any moment, whatever the main loop is doing and however many  *)
(* events wait, faster than any timer period, so that no timer callback    *)
(* runs during the burst.                                                  *)
(***************************************************************************)
\* the events of the burst
QueueEvents == { Ev("Short", "Ok"), Ev("Short", "Back"), Ev("Long", "Back") }

\* the input source sends an event: vp_input_cb runs in its thread
InputBurst == \E ev \in QueueEvents : vp_input_cb(ev)

NextQueue ==
    \/ InputBurst
    \/ MainLoopTop
    \/ MainGet
    \/ MainGetTimeout
    \/ DialogReturn
    \/ AfterDialog
    \/ HintTimerStart
    \/ MainExit

SpecQueue == Init /\ [][NextQueue]_vars

(***************************************************************************)
(* The user reads the help text: events arrive one at a time while the     *)
(* loop waits, with no bound on scrolling, and no timer callback runs.     *)
(***************************************************************************)
\* the input source sends an event while the loop is blocked in
\* furi_message_queue_get
HelpInput ==
    \E ev \in Events :
        /\ pc = "get" /\ q = << >>
        /\ ProcessEvent(ev)
        /\ UNCHANGED q

NextHelp ==
    \/ HelpInput
    \/ MainLoopTop
    \/ MainGetTimeout
    \/ DialogReturn
    \/ AfterDialog
    \/ HintTimerStart
    \/ MainExit

SpecHelp == Init /\ [][NextHelp]_vars

(***************************************************************************)
(* Properties                                                              *)
(***************************************************************************)
\* the main loop is between two events: at the top of an iteration or in
\* furi_message_queue_get
BetweenEvents == pc \in {"loop", "get"}

PwmStopped == hw.pwm_freq = 0 /\ ~s.pwm_running

\* C1: whenever the main loop is between two events (the initial state
\* included) and powered is false, the PWM signal is stopped, PA7 is
\* high-impedance or held low and the 5 V rail is off.
C1_UnpoweredIsSafe ==
    (BetweenEvents /\ ~s.powered)
        => (PwmStopped /\ hw.pin \in {"hiz", "pp_low"} /\ ~hw.otg)

\* C1 witness: the safe menu entered again on Samsung after a mode with a
\* countdown had been run (the countdown timers exist)
C1_Witness ==
    /\ pc = "get" /\ ~s.powered /\ s.screen = ScreenMenu
    /\ s.inverter = InvSamsung /\ s.off_timer /\ s.active # 0

\* C2: whenever the main loop is between two events, powered with active
\* mode 0 means PA7 is driven low and the PWM signal is stopped.
C2_PoweredStandbyIsLow ==
    (BetweenEvents /\ s.powered /\ s.active = 0)
        => (hw.pin = "pp_low" /\ PwmStopped)

\* C2 witness: powered Stand by reached after a mode had been running
C2_Witness ==
    pc = "get" /\ s.powered /\ s.active = 0 /\ s.off_timer /\ hw.pin = "pp_low"

\* C3: whenever the main loop is between two events, powered with an active
\* mode m # 0 means the PWM runs at kModes[m].freq_hz with 50 % duty and the
\* LED timer toggles so that a full blink takes 1000 / led_blink_hz ms.
C3_ActiveModeRuns ==
    (BetweenEvents /\ s.powered /\ s.active # 0)
        => /\ s.pwm_running
           /\ hw.pwm_freq = kModes(s.active).freq_hz
           /\ hw.pwm_duty = PWM_DUTY
           /\ s.led_timer /\ tm.led.armed
           /\ tm.led.period * 2 * kModes(s.active).led_blink_hz = 1000

\* C3 witness: Mid speed running, selected while another mode's countdown
\* had been armed before
C3_Witness ==
    /\ pc = "get" /\ s.powered /\ s.active = 2 /\ hw.pwm_freq = 100
    /\ tm.led.period = 250

ApplyModePost(w, m) ==
    /\ w.s.active = m
    /\ IF kModes(m).freq_hz = 0
       THEN w.hw.pwm_freq = 0 /\ ~w.s.pwm_running /\ w.hw.pin = "pp_low"
       ELSE /\ w.hw.pwm_freq = kModes(m).freq_hz /\ w.s.pwm_running
            /\ w.hw.pin # "pp_low"

\* C4: from every state the program reaches, apply_mode(m) for m in 0..3
\* returns with active = m and, for frequency 0, the PWM stopped and PA7
\* driven low, otherwise the PWM running at exactly that frequency and PA7
\* not forced low.
C4_ApplyModePost ==
    \A m \in 0 .. MODE_COUNT - 1 : ApplyModePost(apply_mode(World, m), m)

\* C4 witness: Max speed just applied from the powered menu over Low speed's
\* LED timer (the state apply_mode(3) left)
C4_Witness ==
    /\ pc = "loop" /\ s.powered /\ s.cursor = 3 /\ s.active = 3
    /\ hw.pwm_freq = 160 /\ hw.pin = "pwm" /\ tm.off.armed

\* the gating rule of start_tick_timer_if_needed
Gating ==
    /\ s.powered /\ s.limit_runtime /\ s.active # 0
    /\ kModes(s.active).default_secs # 0

\* the one-shot expiry timer is pending together with the periodic tick
CountdownArmed == tm.off.armed /\ tm.tick.armed

\* the main loop is about to dequeue an input event
AboutToDequeue == pc = "get"

\* C5 as the specification words it: whenever the main loop is about to
\* dequeue an event, the countdown is armed if and only if the gating rule
\* holds.
C5_ArmedIffGating == AboutToDequeue => (CountdownArmed <=> Gating)

\* C5: whenever the main loop is about to dequeue an event, the countdown is
\* armed if and only if the gating rule holds and no expiry is waiting for
\* the poll: once the one-shot has fired it is no longer pending, although
\* the mode stays active until the next poll.
C5_ArmedIffGatingUnlessExpired ==
    AboutToDequeue => (CountdownArmed <=> (Gating /\ ~s.timeout_expired))

\* C5 witness: the expiry fired while the loop waits for an event; the mode
\* is still active and the one-shot is no longer pending
C5_Witness ==
    /\ AboutToDequeue /\ Gating /\ s.timeout_expired
    /\ ~tm.off.armed /\ tm.tick.armed /\ s.active = 3

\* C6: powered changes from false to true only in the handler of OK at row 0
\* of the unpowered Menu after the power-on dialog returned true, and
\* limit_runtime changes from true to false only in the handler of OK at row
\* 0 of Settings after the alert dialog returned true; no other step of the
\* main loop or of a timer callback makes either change.
C6_GuardedChanges ==
    [][ /\ (~s.powered /\ s'.powered)
             => (pc = "power_on_confirmed" /\ s.screen = ScreenMenu /\ s.cursor = 0)
        /\ (s.limit_runtime /\ ~s'.limit_runtime)
             => (pc = "limit_alert_confirmed" /\ s.screen = ScreenSettings
                 /\ s.cursor = 0) ]_vars

\* C6 witness: both changes have been made; the handler that disabled the
\* limit has just returned to the loop
C6_Witness ==
    /\ pc = "loop" /\ s.powered /\ ~s.limit_runtime
    /\ s.screen = ScreenSettings /\ s.cursor = 0 /\ s.active # 0

\* the time since the one-shot was started, while it is pending
SinceArming == tm.off.period - tm.off.left

\* while the expiry is pending it was started with the active mode's
\* default_secs in milliseconds, that time has not yet elapsed, the flag is
\* down and the tick's count agrees with the time left
PendingExpiry ==
    tm.off.armed =>
        /\ tm.off.period = kModes(s.active).default_secs * 1000
        /\ tm.off.period > 0
        /\ SinceArming < tm.off.period
        /\ ~s.timeout_expired
        /\ s.remaining_ms = tm.off.left

\* C7: a countdown armed for a mode with default_secs = S > 0 and neither
\* cancelled nor armed again sets timeout_expired and remaining_ms = 0 when
\* S seconds have elapsed: the flag is not raised before S seconds since the
\* arming, and it is raised by the step of time that completes them, so no
\* later than one tick period after.
C7_ExpiryAfterSecs ==
    /\ []PendingExpiry
    /\ [][ /\ (~s.timeout_expired /\ s'.timeout_expired)
                => /\ tm.off.armed
                   /\ SinceArming + TICK_MS = kModes(s.active).default_secs * 1000
                   /\ s'.remaining_ms = 0
           /\ (tm.off.armed /\ SinceArming + TICK_MS >= tm.off.period /\ Tock)
                => (s'.timeout_expired /\ s'.remaining_ms = 0) ]_vars

\* C7 witness: Max speed's countdown ran its 30 s and the expiry has just
\* fired; the loop has not polled yet
C7_Witness ==
    /\ pc = "get" /\ s.timeout_expired /\ s.remaining_ms = 0
    /\ s.active = 3 /\ tm.off.period = 30000 /\ ~tm.off.armed

\* a step that raises, or that lowers, timeout_expired
FlagRaised == ~s.timeout_expired /\ s'.timeout_expired
FlagLowered == s.timeout_expired /\ ~s'.timeout_expired

\* the poll at the top of a loop iteration found the flag up, cleared it and
\* called enter_powered_menu_standby
PolledExpiry ==
    /\ pc = "loop" /\ pc' = "get" /\ s.timeout_expired
    /\ Set(enter_powered_menu_standby([World EXCEPT !.s.timeout_expired = FALSE]))

\* a step of a timer callback: the main loop stays where it is
CallbackStep == pc' = pc

\* the fields enter_powered_menu_standby and the other transitions of the
\* main loop write, the LED aside
ActuationUnchanged ==
    /\ s'.powered = s.powered /\ s'.active = s.active /\ s'.cursor = s.cursor
    /\ s'.screen = s.screen /\ s'.pwm_running = s.pwm_running
    /\ hw'.pwm_freq = hw.pwm_freq /\ hw'.pin = hw.pin /\ hw'.otg = hw.otg
    /\ tm'.tick.armed = tm.tick.armed /\ tm'.led.armed = tm.led.armed

\* C8 as the specification words it: timeout_expired is raised only by the
\* expiry callback, it is lowered only by the poll at the top of a loop
\* iteration, which then calls enter_powered_menu_standby, and no timer
\* callback runs enter_powered_menu_standby.
C8_ClearedOnlyByPoll ==
    [][ /\ FlagRaised => OffTimerCb
        /\ FlagLowered => PolledExpiry
        /\ CallbackStep => ActuationUnchanged ]_vars

\* C8: timeout_expired is raised only by the expiry callback; it is lowered
\* either by the poll at the top of a loop iteration, which then calls
\* enter_powered_menu_standby, or by an event handler that runs before that
\* poll and replaces the expired countdown: it arms a new one, or it stops
\* the signal (Stand by or power off); no timer callback runs
\* enter_powered_menu_standby or lowers the flag.
C8_ClearedByPollOrHandler ==
    [][ /\ FlagRaised => OffTimerCb
        /\ FlagLowered =>
              \/ PolledExpiry
              \/ /\ pc = "get" /\ pc' = "loop"
                 /\ tm'.off.armed \/ hw'.pwm_freq = 0
        /\ CallbackStep => (ActuationUnchanged /\ ~FlagLowered) ]_vars

\* C8 witness: the expiry fired while the loop waits for an event and the
\* cursor is on another mode: the next OK arms a new countdown before the
\* flag is polled
C8_Witness ==
    /\ pc = "get" /\ s.timeout_expired /\ s.screen = ScreenMenu
    /\ s.active = 3 /\ s.cursor = 2 /\ hw.pwm_freq = 160

\* the expiry of the most recent arming fired and has been neither handled
\* nor replaced for longer than one polling cycle of the main loop
ExpiryOverdue == tm.off.period > 0 /\ ~tm.off.armed /\ tm.off.over > POLL_MS

\* C9: while limit_runtime is true the PWM signal does not run for longer
\* than the active mode's timeout plus one polling cycle (100 ms) after the
\* most recent arming of the countdown.
C9_BoundedRunTime ==
    (s.limit_runtime /\ s.pwm_running /\ hw.pwm_freq # 0) => ~ExpiryOverdue

\* C10: when the runtime limit is disabled in Settings while a countdown is
\* armed, remaining_ms becomes 0 and both countdown timers are stopped; while
\* the limit stays disabled the expiry timer does not fire and the poll makes
\* no expiry-driven fallback to Stand by.
C10_DisableCancelsCountdown ==
    [][ /\ (s.limit_runtime /\ ~s'.limit_runtime)
             => (s'.remaining_ms = 0 /\ ~tm'.off.armed /\ ~tm'.tick.armed)
        /\ ~s.limit_runtime => ~OffTimerCb
        /\ PolledExpiry => s.limit_runtime ]_vars

\* up to n steps of TICK_MS pass without an input event; as in Tock, time
\* does not pass a raised flag that the poll has not handled
RECURSIVE elapse(_, _)
elapse(w, n) ==
    IF n = 0 \/ w.s.timeout_expired THEN w
    ELSE elapse(elapse_off(elapse_tick(w)), n - 1)

\* the state enter_powered_menu_standby leaves: powered Stand by
PowerOnIdle(w) ==
    /\ w.s.powered /\ w.s.active = 0 /\ w.s.cursor = 0 /\ w.s.first_visible = 0
    /\ w.hw.pin = "pp_low" /\ w.hw.pwm_freq = 0 /\ ~w.s.pwm_running
    /\ w.hw.otg = (w.s.inverter = InvSamsung)
    /\ ~w.tm.off.armed /\ ~w.tm.tick.armed
    /\ w.s.remaining_ms = 0 /\ ~w.s.timeout_expired
    /\ ~w.hw.led /\ ~w.tm.led.armed

\* OK on the row of mode m, then default_secs(m) seconds without input, then
\* the poll
SelectThenRunOut(m) ==
    LET secs == kModes(m).default_secs
        w1 == dispatch_input(World, Ev("Short", "Ok"), FALSE)
    IN  /\ w1.s.active = m
        /\ w1.s.pwm_running /\ w1.hw.pwm_freq = kModes(m).freq_hz
        /\ w1.s.remaining_ms = secs * 1000
        /\ w1.tm.off.armed /\ w1.tm.off.left = secs * 1000
        /\ w1.tm.tick.armed /\ w1.tm.tick.period = TICK_MS
        /\ (m = 3) => (w1.hw.pwm_freq = 160 /\ w1.s.remaining_ms = 30000)
        /\ poll_timeout(elapse(w1, secs - 1)) = elapse(w1, secs - 1)
        /\ PowerOnIdle(poll_timeout(elapse(w1, secs)))
        /\ poll_timeout(elapse(w1, secs)).s.screen = ScreenMenu

\* the loop waits for an event on the powered Menu with the cursor on a
\* mode with a timeout, the runtime limit enabled
RunOutFromMenu ==
    ( /\ AboutToDequeue /\ s.screen = ScreenMenu /\ s.powered
      /\ s.limit_runtime /\ s.cursor \in 1 .. MODE_COUNT - 1 )
        => SelectThenRunOut(s.cursor)

\* C11: whenever the loop waits for an event on the powered Menu with the
\* cursor on a mode m in 1..3 and limit_runtime true, OK makes the signal run
\* at kModes[m].freq_hz with remaining_ms = default_secs * 1000 (Max speed:
\* 160 Hz and 30000), and default_secs seconds without input later the poll
\* leaves the power-on idle state: powered, mode 0, pin low, PWM stopped,
\* 5 V on exactly for Samsung, no countdown armed; every poll that handles
\* an expiry leaves that state.
C11_SelectThenRunOut ==
    /\ []RunOutFromMenu
    /\ [][PolledExpiry => PowerOnIdle(World')]_vars

\* C11 witness: Max speed on Samsung ran its 30 s without input; the loop is
\* at the poll that handles the expiry
C11_Witness ==
    /\ pc = "loop" /\ s.timeout_expired /\ s.screen = ScreenMenu
    /\ s.active = 3 /\ s.cursor = 3 /\ s.inverter = InvSamsung /\ hw.otg
    /\ hw.pwm_freq = 160

\* the screens that show a list with a cursor
ListScreens == {ScreenSelectInverter, ScreenMenu, ScreenSettings}

\* the number of rows of the list on the current screen
row_count(w) ==
    CASE w.s.screen = ScreenSelectInverter -> SELECT_INVERTER_ROWS
      [] w.s.screen = ScreenMenu           -> menu_row_total(w)
      [] w.s.screen = ScreenSettings       -> SETTINGS_ROW_TOTAL
      [] OTHER                             -> 0

\* the rows the cursor may stand on: all but the header of Settings
SelectableRows(w) ==
    { r \in 0 .. row_count(w) - 1 :
        ~(w.s.screen = ScreenSettings /\ r = SETTINGS_HEADER_ROW) }

RowMin(rows) == CHOOSE r \in rows : \A x \in rows : r <= x
RowMax(rows) == CHOOSE r \in rows : \A x \in rows : r >= x

\* the selectable row after, and before, row c in cyclic order
RowAfter(rows, c) ==
    IF c = RowMax(rows) THEN RowMin(rows) ELSE RowMin({r \in rows : r > c})
RowBefore(rows, c) ==
    IF c = RowMin(rows) THEN RowMax(rows) ELSE RowMax({r \in rows : r < c})

\* C12: on every list screen (SelectInverter, unpowered and powered Menu,
\* Settings) a short Up moves the cursor to the selectable row before it and
\* a short Down to the one after it, in cyclic order: Up from the first row
\* lands on the last, Down from the last on the first, and the header row 2
\* of Settings is skipped in both directions; screen and power are kept.
C12_CyclicNavigation ==
    (AboutToDequeue /\ s.screen \in ListScreens) =>
        LET rows == SelectableRows(World)
            up == dispatch_input(World, Ev("Short", "Up"), FALSE)
            down == dispatch_input(World, Ev("Short", "Down"), FALSE)
        IN  /\ up.s.cursor = RowBefore(rows, s.cursor)
            /\ down.s.cursor = RowAfter(rows, s.cursor)
            /\ up.s.screen = s.screen /\ down.s.screen = s.screen
            /\ up.s.powered = s.powered /\ down.s.powered = s.powered

\* C12 witness: Up from row 0 of Settings wrapped to the last row, the
\* window scrolled with it
C12_Witness ==
    /\ pc = "loop" /\ s.screen = ScreenSettings
    /\ s.cursor = SETTINGS_ROW_TOTAL - 1 /\ s.first_visible = 1 /\ s.powered

\* C13: in every reachable state the cursor is on a selectable row of the
\* current list screen: below 2 on SelectInverter, below 3 on the unpowered
\* Menu, below 7 on the powered Menu, one of 0, 1, 3, 4 on Settings.
C13_CursorSelectable ==
    (s.screen \in ListScreens) => s.cursor \in SelectableRows(World)

\* C13 witness: back on the unpowered Menu from Help, which had been
\* scrolled; the cursor is still on the Help row
C13_Witness ==
    /\ s.screen = ScreenMenu /\ ~s.powered /\ s.cursor = 2
    /\ s.help_top_line = 1 /\ s.inverter = InvEmbraco

\* C14: on the Menu and Settings screens the window of MAX_ROWS = 4 rows
\* contains the cursor, first_visible <= cursor < first_visible + 4, and it
\* does not reach past the last row when the list has at least 4 rows.
C14_CursorInWindow ==
    (s.screen \in {ScreenMenu, ScreenSettings}) =>
        /\ s.first_visible <= s.cursor
        /\ s.cursor < s.first_visible + MAX_ROWS
        /\ (row_count(World) >= MAX_ROWS)
              => (s.first_visible + MAX_ROWS <= row_count(World))

\* C14 witness: the powered Menu scrolled to its last row
C14_Witness ==
    /\ s.screen = ScreenMenu /\ s.powered /\ s.cursor = MODE_COUNT + 2
    /\ s.first_visible = 3 /\ s.active = 1

\* the state enter_safe_menu leaves on the Menu for inverter inv
SafeMenu(w, inv) ==
    /\ w.s.screen = ScreenMenu /\ w.s.inverter = inv
    /\ ~w.s.powered /\ w.s.cursor = 0 /\ w.s.first_visible = 0
    /\ w.hw.pin = "hiz" /\ w.hw.pwm_freq = 0 /\ ~w.s.pwm_running
    /\ ~w.hw.otg

\* C15: on the SelectInverter screen OK (short or repeated) commits the
\* inverter under the cursor, row 0 Embraco and row 1 Samsung, and leaves
\* screen = Menu, powered = false, cursor = 0, PA7 high-impedance, the PWM
\* stopped and the 5 V rail off, for either inverter.
C15_SelectInverterCommit ==
    (AboutToDequeue /\ s.screen = ScreenSelectInverter) =>
        \A t \in {"Short", "Repeat"} :
            SafeMenu(dispatch_input(World, Ev(t, "Ok"), FALSE),
                     IF s.cursor = 0 THEN InvEmbraco ELSE InvSamsung)

\* C15 witness: Samsung has just been committed from row 1
C15_Witness ==
    /\ pc = "loop" /\ SafeMenu(World, InvSamsung)
    /\ ~s.off_timer /\ ~s.hint_timer /\ s.limit_runtime /\ s.arrow_captcha

\* C16: the handler of OK at row 0 of the unpowered Menu going on after the
\* power-on dialog returned true, and every step that turns powered on,
\* leaves powered = true, active = 0, cursor = 0, PA7 driven low, the PWM
\* stopped, no countdown armed, the indicator off and the 5 V rail on for
\* Samsung and off for Embraco, on the Menu with the inverter unchanged.
C16_PowerOnConfirmed ==
    [][ ((pc = "power_on_confirmed" /\ pc' = "loop") \/ (~s.powered /\ s'.powered))
          => /\ PowerOnIdle(World')
             /\ s'.screen = ScreenMenu /\ s'.inverter = s.inverter ]_vars

\* C16 witness: power has just been switched on for Samsung, no mode has
\* run yet
C16_Witness ==
    /\ pc = "loop" /\ PowerOnIdle(World) /\ s.screen = ScreenMenu
    /\ s.inverter = InvSamsung /\ hw.otg /\ ~s.off_timer

\* the main loop is inside a dialog or going on after the dialog was declined
DialogOrDeclined ==
    pc \in {"show_power_on_confirm", "show_limit_alert_confirm",
            "power_on_cancelled", "limit_alert_cancelled"}

\* C17: a declined dialog changes nothing: the main loop's steps from
\* showing a dialog to the end of the handler that was declined leave the
\* AppState, the hardware and the timers as they are; after a declined
\* limit alert limit_runtime is still true on row 0 of Settings, after a
\* declined power-on powered is still false with the hardware safe.
C17_DeclineChangesNothing ==
    /\ [][(DialogOrDeclined /\ pc' # pc) => UNCHANGED <<s, hw, tm>>]_vars
    /\ [](pc = "limit_alert_cancelled"
             => (s.limit_runtime /\ s.screen = ScreenSettings /\ s.cursor = 0))
    /\ [](pc = "power_on_cancelled"
             => (~s.powered /\ PwmStopped /\ hw.pin \in {"hiz", "pp_low"} /\ ~hw.otg))

\* C17 witness: the limit alert was declined while Max speed runs with its
\* countdown armed
C17_Witness ==
    /\ pc = "limit_alert_cancelled" /\ s.active = 3 /\ hw.pwm_freq = 160
    /\ tm.off.armed /\ tm.tick.armed

\* the event that ends the loop
BackHeld == Ev("Long", "Back")

\* whatever event the loop dequeues in this state, it sets exit_app exactly
\* for the held Back, and then without running a handler
OnlyBackHeldExits ==
    AboutToDequeue =>
        \A ev \in InputEvent :
            LET r == loop_body(World, ev)
            IN  /\ r.exit <=> (ev = BackHeld)
                /\ (ev = BackHeld) => (r.w = World /\ r.pc = "loop")

\* C18: from every screen and every mode and countdown state a dequeued
\* held Back sets exit_app without running a per-screen handler, and no
\* other event does; exit_app is set only by that step and stays set; with
\* exit_app set the loop's next step is the cleanup, after which the process
\* has ended and nothing happens any more; the process ends in no other way.
C18_BackHeldExits ==
    /\ []OnlyBackHeldExits
    /\ [](pc = "done" => exit_app)
    /\ [][ /\ (~exit_app /\ exit_app')
                => (pc = "get" /\ pc' = "loop" /\ UNCHANGED <<s, hw, tm>>)
           /\ exit_app => exit_app'
           /\ (exit_app /\ pc = "loop" /\ pc' # pc)
                => (pc' = "done" /\ World' = cleanup(World))
           /\ pc # "done" ]_vars

\* C18 witness: the process has ended from Settings while Max speed was
\* running
C18_Witness ==
    /\ pc = "done" /\ exit_app /\ s.screen = ScreenSettings
    /\ s.powered /\ s.active = 3

\* the five things the cleanup brings about, in the order it does
TimersReleased(w) ==
    /\ \A t \in {"led", "hint", "tick", "off"} : ~w.tm[t].armed
    /\ ~w.s.led_timer /\ ~w.s.hint_timer /\ ~w.s.tick_timer /\ ~w.s.off_timer
CleanupDone(k, w) ==
    CASE k = 1 -> TimersReleased(w)
      [] k = 2 -> w.hw.pwm_freq = 0 /\ ~w.s.pwm_running
      [] k = 3 -> w.hw.pin = "hiz"
      [] k = 4 -> ~w.hw.otg
      [] k = 5 -> ~w.hw.led

\* in every state the cleanup passes through, a thing it has brought about
\* is preceded by the things before it in the order
CleanupInOrder(w) ==
    LET tr == cleanup_trace(w)
    IN  /\ tr[Len(tr)] = cleanup(w)
        /\ \A i \in 1 .. Len(tr) : \A k \in 1 .. 4 :
              (CleanupDone(k + 1, tr[i]) /\ ~CleanupDone(k + 1, w))
                  => CleanupDone(k, tr[i])

\* C19: from whatever state the loop ends in, the cleanup stops and
\* releases the indicator, hint and countdown timers, then stops the PWM,
\* then disconnects PA7, then switches the 5 V rail off, then clears the
\* indicator; when the process has ended no timer is armed, the PWM is
\* stopped, PA7 is high-impedance, the rail is off and the indicator is off.
C19_CleanupOrderAndResult ==
    [](/\ (pc # "done") => CleanupInOrder(World)
       /\ (pc = "done") => \A k \in 1 .. 5 : CleanupDone(k, World))

\* C19 witness: the process has ended from a running mode on Samsung whose
\* countdown was armed with the 5 V rail on
C19_Witness ==
    /\ pc = "done" /\ s.powered /\ s.active = 1 /\ s.inverter = InvSamsung
    /\ s.remaining_ms > 0 /\ ~hw.otg /\ hw.pin = "hiz"

\* C20: a timer callback running at any point of the main loop leaves
\* powered, active, screen, cursor, the PWM state and frequency, PA7 and the
\* 5 V rail unchanged: the tick writes only remaining_ms, the expiry only
\* remaining_ms and timeout_expired, the indicator toggle only led_on and
\* the LED, the hint callback only hint_visible.
C20_CallbackFrame ==
    [][ /\ TickTimerCb
             => (hw' = hw /\ s' = [s EXCEPT !.remaining_ms = s'.remaining_ms])
        /\ OffTimerCb
             => (hw' = hw /\ s' = [s EXCEPT !.remaining_ms = s'.remaining_ms,
                                            !.timeout_expired = s'.timeout_expired])
        /\ LedTimerCb
             => (hw' = [hw EXCEPT !.led = hw'.led]
                 /\ s' = [s EXCEPT !.led_on = s'.led_on])
        /\ HintTimerCb
             => (hw' = hw /\ s' = [s EXCEPT !.hint_visible = s'.hint_visible])
        /\ CallbackStep
             => (ActuationUnchanged /\ s'.first_visible = s.first_visible
                 /\ s'.limit_runtime = s.limit_runtime
                 /\ s'.inverter = s.inverter /\ hw'.pwm_duty = hw.pwm_duty) ]_vars

\* C20 witness: the expiry callback ran in the middle of a handler, between
\* the return of the alert dialog and the handler's stop_timers, while the
\* hint ribbon's timer is pending
C20_Witness ==
    /\ pc = "limit_alert_confirmed" /\ s.timeout_expired /\ s.limit_runtime
    /\ hw.pwm_freq # 0 /\ tm.hint.armed

QueueWithinCapacity == Len(q) <= QUEUE_CAP

\* an event is accepted: it goes to the tail while there is room, and the
\* main loop is not touched
Enqueued ==
    /\ Len(q) < QUEUE_CAP
    /\ \E ev \in InputEvent : q' = Append(q, ev)
    /\ UNCHANGED <<s, hw, tm, pc, exit_app>>

\* the main loop takes the event at the head and runs the loop body on it
Dequeued ==
    /\ pc = "get" /\ q # << >> /\ q' = Tail(q)
    /\ LET r == loop_body(World, Head(q))
       IN  /\ World' = r.w /\ pc' = r.pc
           /\ exit_app' = (exit_app \/ r.exit)
    /\ pc' # "get"

\* the queue is freed when the process ends
QueueFreed == pc' = "done" /\ q' = << >>

\* C21: the input queue is a bounded FIFO of capacity 8: its length never
\* exceeds 8; the queue changes only by an accepted event going to the tail
\* while fewer than 8 wait, by the main loop taking the head and processing
\* it, or by the release at exit, so that an event sent while 8 wait is
\* dropped and the queue is left as it was; and the loop takes one event per
\* iteration, from the head, the wait being entered from the top of the loop
\* only.
C21_BoundedFifo ==
    /\ []QueueWithinCapacity
    /\ [][ /\ (q' # q) => (Enqueued \/ Dequeued \/ QueueFreed)
           /\ (pc' = "get" /\ pc # "get") => (pc = "loop" /\ q' = q) ]_vars

\* C21 witness: the loop is about to take the head of a full queue whose
\* first and last events differ
C21_Witness ==
    /\ pc = "get" /\ Len(q) = QUEUE_CAP /\ q[1] # q[QUEUE_CAP]
    /\ s.screen = ScreenMenu /\ s.powered

\* what enter_safe_menu leaves
SafeState(w) ==
    /\ ~w.s.powered /\ w.s.cursor = 0 /\ w.s.first_visible = 0
    /\ ~w.s.pwm_running /\ w.hw.pwm_freq = 0
    /\ w.hw.pin = "hiz"
    /\ ~w.hw.otg
    /\ ~w.hw.led /\ ~w.s.led_on /\ ~w.s.led_timer /\ ~w.tm.led.armed
    /\ ~w.tm.tick.armed /\ ~w.tm.off.armed
    /\ w.s.remaining_ms = 0 /\ ~w.s.timeout_expired

\* enter_safe_menu called in any state the program reaches
EnterSafeFromAnyState == SafeState(enter_safe_menu(World))

\* C22: from every state the program reaches, at any position of the main
\* loop, enter_safe_menu returns with powered = false, cursor = 0,
\* first_visible = 0, the PWM stopped, PA7 disconnected, the 5 V rail off
\* for either inverter, the indicator off with no blink timer, both
\* countdown timers stopped, remaining_ms = 0 and timeout_expired = false;
\* and every step of the program that clears powered ends in that state.
C22_EnterSafePost ==
    /\ []EnterSafeFromAnyState
    /\ [][(s.powered /\ ~s'.powered) => SafeState(World')]_vars

\* C22 witness: enter_safe_menu has just run (Power off) over Max speed on
\* Samsung, whose countdown timers and blink timer had been created
C22_Witness ==
    /\ pc = "loop" /\ s.screen = ScreenMenu /\ SafeState(World)
    /\ s.active = 3 /\ s.inverter = InvSamsung /\ s.off_timer /\ s.tick_timer

\* the inverter of a Settings row
RowInverter(row) == IF row = 3 THEN InvEmbraco ELSE InvSamsung

\* OK on an inverter row of Settings: the other inverter is stored, the safe
\* state entered and the Menu shown; the current inverter changes nothing
SettingsInverterRows ==
    (AboutToDequeue /\ s.screen = ScreenSettings /\ s.cursor \in {3, 4}) =>
        LET w == dispatch_input(World, Ev("Short", "Ok"), FALSE)
        IN  IF RowInverter(s.cursor) # s.inverter
            THEN /\ w.s.inverter = RowInverter(s.cursor)
                 /\ w.s.screen = ScreenMenu
                 /\ SafeState(w)
            ELSE w = World

\* C23: every change of the inverter forces the safe state.  In Settings OK
\* on the row of the other inverter stores it, enters the safe state and
\* shows the Menu; OK on the row of the current inverter changes nothing;
\* and every step of the program that changes the inverter ends on the Menu
\* with powered false, the PWM stopped, PA7 disconnected and the 5 V rail
\* off.
C23_InverterChangeIsSafe ==
    /\ []SettingsInverterRows
    /\ [][ (s'.inverter # s.inverter)
             => (s'.screen = ScreenMenu /\ SafeState(World')) ]_vars

\* C23 witness: the loop waits for the next event on the Samsung row of
\* Settings while Embraco runs at Mid speed with its countdown armed
C23_Witness ==
    /\ pc = "get" /\ q = << >>
    /\ s.screen = ScreenSettings /\ s.cursor = 4 /\ s.inverter = InvEmbraco
    /\ s.powered /\ hw.pwm_freq = 100 /\ tm.off.armed

\* the rows of the powered Menu after the modes
RowPowerOff == MODE_COUNT
RowHelpPowered == MODE_COUNT + 2

\* OK on the Help row of the powered Menu
PoweredHelpRow ==
    (AboutToDequeue /\ s.screen = ScreenMenu /\ s.powered
                    /\ s.cursor = RowHelpPowered) =>
        LET w == dispatch_input(World, Ev("Short", "Ok"), FALSE)
        IN  /\ SafeState(w)
            /\ w.s.screen = ScreenHelp /\ w.s.help_top_line = 0

\* OK on the Power off row of the powered Menu
PowerOffRow ==
    (AboutToDequeue /\ s.screen = ScreenMenu /\ s.powered
                    /\ s.cursor = RowPowerOff) =>
        LET w == dispatch_input(World, Ev("Short", "Ok"), FALSE)
        IN  SafeState(w) /\ w.s.screen = ScreenMenu

\* Back (short or repeated) on Help
HelpBack ==
    (AboutToDequeue /\ s.screen = ScreenHelp) =>
        \A t \in {"Short", "Repeat"} :
            LET w == dispatch_input(World, Ev(t, "Back"), FALSE)
            IN  w.s.screen = ScreenMenu /\ ~w.s.powered

\* C24: on the powered Menu OK on the Help row enters the safe state and
\* shows Help, and OK on the Power off row enters the safe state and stays
\* on the Menu: the running signal is stopped and the countdown cancelled in
\* both cases; whenever the screen is Help, powered is false; and Back on
\* Help leads to the unpowered Menu.
C24_HelpIsUnpowered ==
    [](/\ PoweredHelpRow
       /\ PowerOffRow
       /\ s.screen = ScreenHelp => ~s.powered
       /\ HelpBack)

\* C24 witness: Help has just been opened from the powered Menu (the cursor
\* is on row 0, not on the unpowered Menu's Help row) over Max speed
C24_Witness ==
    /\ pc = "loop" /\ s.screen = ScreenHelp /\ s.cursor = 0 /\ s.active = 3
    /\ s.off_timer /\ SafeState(World)

\* the modes with a frequency
RunningModes == {m \in 0 .. MODE_COUNT - 1 : kModes(m).freq_hz # 0}

\* the position in apply_mode_trace of the state in which
\* furi_hal_pwm_start is called
BeforeStart == 4

\* the signal is stopped first and the new one started next: up to the call
\* of furi_hal_pwm_start the output carries the old frequency or none, at
\* the call it carries none and pwm_running is false, from then on it
\* carries the new frequency; the trace ends in what apply_mode returns
StoppedBeforeStarted(w, m) ==
    LET tr == apply_mode_trace(w, m)
        f == kModes(m).freq_hz
    IN  /\ \A i \in 1 .. BeforeStart : tr[i].hw.pwm_freq \in {0, w.hw.pwm_freq}
        /\ tr[BeforeStart].hw.pwm_freq = 0
        /\ ~tr[BeforeStart].s.pwm_running
        /\ \A i \in BeforeStart + 1 .. Len(tr) : tr[i].hw.pwm_freq = f
        /\ tr[Len(tr)].s.pwm_running
        /\ tr[Len(tr)] = apply_mode(w, m)

\* C25: apply_mode for a mode with a frequency, called in any state in
\* which the loop waits on the powered Menu, stops the signal that was
\* running before it starts the new one: at every intermediate state the
\* output is stopped or carries one frequency, the old one before the stop
\* and the new one after the start, and furi_hal_pwm_start is never called
\* while pwm_running still reports a running signal.
C25_StopBeforeStart ==
    []((AboutToDequeue /\ s.screen = ScreenMenu /\ s.powered) =>
          \A m \in RunningModes : StoppedBeforeStarted(World, m))

\* C25 witness: Low speed runs at 55 Hz and the loop waits with the cursor
\* on Max speed, where OK makes apply_mode stop 55 Hz and start 160 Hz
C25_Witness ==
    /\ pc = "get" /\ s.screen = ScreenMenu /\ s.powered
    /\ s.active = 1 /\ s.pwm_running /\ hw.pwm_freq = 55 /\ s.cursor = 3

\* the largest value of the uint8_t parameter idx
UINT8_MAX == 255

\* values of idx that name no mode: those next to the last mode, those at
\* the end of the signed byte and the largest
InvalidModes ==
    (MODE_COUNT .. 2 * MODE_COUNT) \cup {UINT8_MAX \div 2, UINT8_MAX \div 2 + 1, UINT8_MAX}

\* C26: apply_mode with an index outside 0..3 does nothing: from every state
\* the program reaches, the active mode, the PWM and PA7, the indicator and
\* its timer, the countdown timers, remaining_ms and timeout_expired, and
\* everything else, are what they were.
C26_InvalidModeIsNoOp ==
    [](\A idx \in InvalidModes : apply_mode(World, idx) = World)

\* C26 witness: a state in which a valid call would change everything the
\* claim names: Max speed runs, a tick has been counted, the expiry is
\* pending and the indicator blinks
C26_Witness ==
    /\ pc = "get" /\ s.powered /\ s.active = 3 /\ s.pwm_running
    /\ hw.pwm_freq = 160 /\ tm.off.armed /\ tm.tick.armed /\ tm.led.armed
    /\ s.remaining_ms = 29000 /\ hw.led

\* the assignments of s.screen in the main loop, as <<from, to>>
ScreenTransitions ==
    { <<ScreenSelectInverter, ScreenMenu>>,
      <<ScreenMenu, ScreenHelp>>, <<ScreenMenu, ScreenSettings>>,
      <<ScreenHelp, ScreenMenu>>, <<ScreenSettings, ScreenMenu>> }

\* C27: the screen changes only from SelectInverter to Menu, from Menu to
\* Help or Settings, and from Help or Settings to Menu; once it has left
\* SelectInverter it never is SelectInverter again, and Help and Settings
\* are entered from Menu only.
C27_ScreenTransitions ==
    [][ /\ (s'.screen # s.screen) => (<<s.screen, s'.screen>> \in ScreenTransitions)
        /\ (s.screen # ScreenSelectInverter) => (s'.screen # ScreenSelectInverter)
        /\ (s'.screen \in {ScreenHelp, ScreenSettings} /\ s'.screen # s.screen)
              => (s.screen = ScreenMenu) ]_vars

\* C27 witness: all five transitions have been taken: the Menu is shown
\* again after a visit to Settings, where the placeholder toggle was
\* switched, and a visit to Help, where the text was scrolled
C27_Witness ==
    /\ s.screen = ScreenMenu /\ ~s.arrow_captcha /\ s.help_top_line = 1
    /\ pc = "get"

\* a step of the short-BACK handler changes neither the screen, the cursor,
\* powered, the active mode nor any output
HintFrame ==
    /\ s'.screen = s.screen /\ s'.cursor = s.cursor
    /\ s'.powered = s.powered /\ s'.active = s.active
    /\ hw' = hw

\* the short-BACK handler is entered
HintHandlerEntered == pc = "get" /\ pc' = "hint_timer_start"

\* the short-BACK handler ends
HintHandlerDone == pc = "hint_timer_start" /\ pc' = "loop"

\* C28 as the specification words it: a short Back on SelectInverter or Menu
\* sets hint_visible and starts the 1.5 s one-shot hint timer afresh without
\* changing screen, cursor, powered, active mode or any output: when the
\* handler ends the ribbon is visible and the timer has 1.5 s to run.
C28_BackShowsHint ==
    [][ /\ HintHandlerEntered => (s'.hint_visible /\ HintFrame)
        /\ HintHandlerDone
             => /\ s'.hint_visible
                /\ tm'.hint.armed /\ tm'.hint.left = HINT_MS
                /\ HintFrame ]_vars

\* C28, the part that holds whatever the interleaving: the handler writes
\* hint_visible, always ends with the timer started afresh and changes
\* nothing else.
C28_TimerRestarted ==
    [][ /\ HintHandlerEntered => (s'.hint_visible /\ HintFrame)
        /\ HintHandlerDone
             => (tm'.hint.armed /\ tm'.hint.left = HINT_MS /\ HintFrame) ]_vars

\* C28, the ribbon hides again: with the kernel running pending callbacks,
\* a visible ribbon is eventually hidden unless the process ends first
C28_HintHides == s.hint_visible ~> (~s.hint_visible \/ pc = "done")

\* the state C28 fails in: the handler has ended, its timer has the full
\* 1.5 s to run, and the ribbon is hidden
C28_HiddenAfterBack ==
    pc = "loop" /\ tm.hint.armed /\ tm.hint.left = HINT_MS /\ ~s.hint_visible

\* the countdown is armed afresh: start_tick_timer_if_needed got past its
\* tests
Arming ==
    /\ s'.remaining_ms = kModes(s'.active).default_secs * 1000
    /\ tm'.off.armed /\ tm'.off.left = s'.remaining_ms
    /\ tm'.tick.armed /\ tm'.tick.left = TICK_MS

\* remaining_ms is at most the whole time of the active mode, which is at
\* most 120000 and fits the uint32_t (its upper 16 bits fit 16 bits)
RemainingWithinMode ==
    /\ s.remaining_ms >= 0
    /\ s.remaining_ms <= kModes(s.active).default_secs * 1000
    /\ s.remaining_ms <= 120000
    /\ s.remaining_ms \div 2^16 < 2^16

\* C29: each tick takes exactly 1000 off remaining_ms when it is at least
\* 1000 and otherwise sets it to 0, never wrapping below zero, and writes
\* nothing else (timeout_expired in particular); remaining_ms grows only
\* when the countdown is armed afresh, and never exceeds default_secs * 1000
\* of the active mode (at most 120000, which fits 32 bits).
C29_TickCountsDown ==
    /\ []RemainingWithinMode
    /\ [][ /\ TickTimerCb
                => s' = [s EXCEPT !.remaining_ms =
                                     IF s.remaining_ms >= 1000
                                     THEN s.remaining_ms - 1000 ELSE 0]
           /\ (s'.remaining_ms > s.remaining_ms) => Arming ]_vars

\* C29 witness: two ticks have been counted off Low speed's 120 s while the
\* expiry is pending
C29_Witness ==
    /\ s.active = 1 /\ s.remaining_ms = 118000
    /\ tm.off.armed /\ tm.tick.armed /\ ~s.timeout_expired

\* the toggle period for a rate: max(1, floor(500 / r))
TogglePeriod(r) == IF 500 \div r < 1 THEN 1 ELSE 500 \div r

\* the rates led_apply is called with: those of the modes, 0 from
\* enter_safe_menu, and the largest uint8_t
BlinkRates ==
    {kModes(m).led_blink_hz : m \in 0 .. MODE_COUNT - 1} \cup {0, UINT8_MAX}

\* the period computed for every rate a uint8_t can hold is
\* max(1, floor(500 / r))
PeriodForEveryRate ==
    \A r \in 1 .. UINT8_MAX : led_period(r) = TogglePeriod(r)

\* what led_apply(r) leaves: the LED off; for rate 0 no timer, otherwise a
\* timer started afresh with the toggle period
LedApplied(w, r) ==
    /\ ~w.hw.led /\ ~w.s.led_on
    /\ IF r = 0
       THEN ~w.s.led_timer /\ ~w.tm.led.armed
       ELSE /\ w.s.led_timer /\ w.tm.led.armed
            /\ w.tm.led.period = TogglePeriod(r)
            /\ w.tm.led.left = TogglePeriod(r)

\* a blink timer exists
BlinkTimer == s.led_timer /\ tm.led.armed

\* C30: led_apply for a rate r, called in any state in which the main loop
\* is about to dequeue an event, stops and frees the existing blink timer
\* and forces the indicator off; for r = 0 nothing is scheduled, otherwise a
\* new periodic timer of period max(1, floor(500 / r)) ms is started (the
\* period for every rate of a uint8_t, the call for the rates in use).  In
\* every such state a blink timer exists if and only if powered is true and
\* the active mode is not 0, and without a blink timer the indicator is off.
C30_IndicatorFollowsMode ==
    [](AboutToDequeue =>
          /\ PeriodForEveryRate
          /\ \A r \in BlinkRates : LedApplied(led_apply(World, r), r)
          /\ BlinkTimer <=> (s.powered /\ s.active # 0)
          /\ (s.led_timer \/ tm.led.armed) <=> BlinkTimer
          /\ ~BlinkTimer => (~hw.led /\ ~s.led_on))

\* C30 witness: Low speed blinks and the LED is lit while the loop waits
\* with the cursor on Stand by, whose led_apply(0) has a timer to free and a
\* lit LED to switch off
C30_Witness ==
    /\ pc = "get" /\ s.powered /\ s.active = 1 /\ s.cursor = 0
    /\ BlinkTimer /\ tm.led.period = 500 /\ hw.led /\ s.led_on

\* lines of help text that fit below the title: floor((64 - 10) / 9)
HelpLinesThatFit == 6

\* the largest scroll offset for the help text of a profile
HelpMaxTop(inv) ==
    IF help_total_lines(inv) - HelpLinesThatFit > 0
    THEN help_total_lines(inv) - HelpLinesThatFit ELSE 0

\* on the Help screen the offset is within the text of the current profile
HelpOffsetInRange ==
    s.screen = ScreenHelp =>
        (0 <= s.help_top_line /\ s.help_top_line <= HelpMaxTop(s.inverter))

\* up and down on the Help screen move the offset by one line, stop at the
\* first and at the last offset, and change nothing else
HelpScrollClamped ==
    (s.screen = ScreenHelp /\ AboutToDequeue) =>
        \A ev \in Events :
            LET r == loop_body(World, ev)
                h == s.help_top_line
            IN  (ev.key \in {"Up", "Down"}) =>
                  /\ r.pc = "loop" /\ ~r.exit
                  /\ r.w = [World EXCEPT !.s.help_top_line =
                              IF ev.key = "Up"
                              THEN (IF h = 0 THEN 0 ELSE h - 1)
                              ELSE (IF h = HelpMaxTop(s.inverter) THEN h ELSE h + 1)]

\* C31: on the Help screen help_top_line is always between 0 and
\* max(0, total_lines - 6) for the help text of the current profile; up at
\* offset 0 and down at the largest offset leave it unchanged, up and down
\* change nothing but the offset, which moves by one line; every step that
\* enters Help sets the offset to 0, and the offset changes only on Help.
C31_HelpScrollBounded ==
    /\ []HelpOffsetInRange
    /\ []HelpScrollClamped
    /\ [][ /\ (s.screen # ScreenHelp /\ s'.screen = ScreenHelp)
                => s'.help_top_line = 0
           /\ (s'.help_top_line # s.help_top_line)
                => (s'.screen = ScreenHelp /\ pc = "get" /\ pc' = "loop") ]_vars

\* C31 witness: the Embraco help text scrolled to its last offset, where the
\* loop waits for the next key
C31_Witness ==
    /\ s.screen = ScreenHelp /\ s.inverter = InvEmbraco /\ pc = "get"
    /\ s.help_top_line = HELP_EMBRACO_COUNT - HelpLinesThatFit

\* the 5 V rail is on exactly when powered with the Samsung profile
RailFollowsProfile == hw.otg <=> (s.powered /\ s.inverter = InvSamsung)

\* C32: whenever the main loop is about to dequeue an event the 5 V rail is
\* enabled if and only if powered is true and the profile is Samsung; between
\* the steps of the loop it is never enabled with the Embraco profile; and
\* the rail is switched off only by a step that leaves the program unpowered
\* or ends it, so it stays on across mode changes and the expiry of the
\* countdown while powered with Samsung.
C32_RailOnlyForPoweredSamsung ==
    /\ [](AboutToDequeue => RailFollowsProfile)
    /\ [](s.inverter = InvEmbraco => ~hw.otg)
    /\ [][(hw.otg /\ ~hw'.otg) => (~s'.powered \/ pc' = "done")]_vars

\* C32 witness: on Samsung the countdown of a running mode has expired and
\* the loop has not polled the flag yet; the rail is on
C32_Witness ==
    /\ pc = "get" /\ s.powered /\ s.inverter = InvSamsung /\ s.active = 2
    /\ s.timeout_expired /\ hw.otg

\* neither the tick timer nor the one-shot expiry timer is armed
CountdownDisarmed == ~tm.tick.armed /\ ~tm.off.armed

\* C33: whenever the gating rule is not satisfied and both countdown timers
\* are disarmed, remaining_ms is 0, at every state of every interleaving of
\* the tick and expiry callbacks with the handlers of the main loop; and
\* while the main loop runs there is no state with remaining_ms > 0 in which
\* neither countdown timer is armed.
C33_DisarmedMeansZero ==
    /\ []((~Gating /\ CountdownDisarmed) => s.remaining_ms = 0)
    /\ []((pc # "done" /\ s.remaining_ms > 0) => ~CountdownDisarmed)
    /\ [][(CountdownDisarmed' /\ ~CountdownDisarmed /\ pc' # "done")
            => s'.remaining_ms = 0]_vars

\* C33 witness: the limit was switched off in Settings while the countdown
\* of Mid speed ran: the timers exist and are stopped, nothing remains
C33_Witness ==
    /\ pc = "get" /\ s.screen = ScreenSettings /\ s.powered /\ s.active = 2
    /\ ~s.limit_runtime /\ s.tick_timer /\ s.off_timer
    /\ CountdownDisarmed /\ s.remaining_ms = 0 /\ ~s.timeout_expired

\* the one-shot as furi_timer_start leaves it for the countdown of mode m
FreshExpiry(m) ==
    [armed |-> TRUE, period |-> kModes(m).default_secs * 1000,
     left |-> kModes(m).default_secs * 1000, over |-> 0]

\* a step of the main loop's thread
LoopStep == pc' # pc

\* C34: the expiry callback runs only for a pending one-shot, when the time
\* of the active mode has elapsed since the latest arming, and leaves it
\* dormant, so it fires at most once for an arming; a step of the main loop
\* taken while the expiry is pending leaves it alone with the countdown
\* untouched, or cancels it (Stand by, enter_safe_menu, limit disabled, exit)
\* with the flag down, or arms it again with the full time of the new active
\* mode; a cancelled or dormant one-shot does not fire until it is armed
\* again by the main loop.
C34_ExpiryOncePerArming ==
    [][ /\ FlagRaised
             => /\ tm.off.armed /\ ~tm'.off.armed /\ ~LoopStep
                /\ tm.off.period = kModes(s.active).default_secs * 1000
                /\ SinceArming + TICK_MS = tm.off.period
        /\ (LoopStep /\ tm.off.armed)
             => \/ /\ tm'.off = tm.off
                   /\ s'.remaining_ms = s.remaining_ms /\ s'.active = s.active
                \/ tm'.off = TimerIdle /\ ~s'.timeout_expired /\ s'.remaining_ms = 0
                \/ tm'.off = TimerIdle /\ ~s'.timeout_expired /\ pc' = "done"
                \/ /\ tm'.off = FreshExpiry(s'.active) /\ ~s'.timeout_expired
                   /\ s'.remaining_ms = tm'.off.left
        /\ (~tm.off.armed /\ tm'.off.armed)
             => (LoopStep /\ tm'.off = FreshExpiry(s'.active))
        /\ (~tm.off.armed /\ ~LoopStep)
             => (~tm'.off.armed /\ s'.timeout_expired = s.timeout_expired) ]_vars

\* C34 witness: the handler of OK on Low speed has just returned: whatever
\* was pending before, the one-shot is pending with Low speed's full time and
\* the tick has been restarted
C34_Witness ==
    /\ pc = "loop" /\ s.screen = ScreenMenu /\ s.powered /\ s.active = 1
    /\ s.cursor = 1 /\ tm.off = FreshExpiry(1) /\ s.remaining_ms = tm.off.left
    /\ tm.tick.armed /\ tm.tick.left = TICK_MS /\ ~s.timeout_expired

\* the expiry flag is down whenever the program is unpowered
NoExpiryUnpowered == ~s.powered => ~s.timeout_expired

\* an expiry that fires while enter_safe_menu runs leaves the state that
\* enter_safe_menu leaves without it
ExpiryDuringEnterSafe ==
    (pc = "get" /\ s.powered) =>
        enter_safe_menu_interrupted(World) = enter_safe_menu(World)

\* C35: timeout_expired is never true while powered is false, also when the
\* expiry fires while enter_safe_menu runs (power off, Help from the powered
\* Menu, a change of inverter); the poll of the flag calls
\* enter_powered_menu_standby only from a powered state; and powered becomes
\* true only once the user has confirmed the dialog.
C35_NoExpiryWhileUnpowered ==
    /\ []NoExpiryUnpowered
    /\ []ExpiryDuringEnterSafe
    /\ [][ /\ PolledExpiry => s.powered
           /\ (~s.powered /\ s'.powered) => pc = "power_on_confirmed"
           /\ (~s.powered /\ pc # "power_on_confirmed")
                => (~hw'.otg /\ hw'.pwm_freq = 0 /\ hw'.pin = "hiz") ]_vars

\* C35 witness: Help was opened from the powered Menu while Mid speed ran with
\* its countdown: unpowered, the timers exist and are stopped, the flag is down
C35_Witness ==
    /\ pc = "loop" /\ s.screen = ScreenHelp /\ ~s.powered /\ s.active = 2
    /\ s.off_timer /\ ~tm.off.armed /\ ~tm.tick.armed /\ ~s.timeout_expired

\* w2 differs from w1 in screen, cursor and first_visible at most
SameButView(w1, w2) ==
    w2 = [w1 EXCEPT !.s.screen = w2.s.screen, !.s.cursor = w2.s.cursor,
                    !.s.first_visible = w2.s.first_visible]

\* the keys that move the cursor
MoveEvents == {ev \in Events : ev.key \in {"Up", "Down"}}

\* OK on the Settings row of the powered Menu while a mode runs, two cursor
\* moves and Back: the state is the one before, the cursor on the first row
SettingsRoundTrip ==
    (AboutToDequeue /\ s.screen = ScreenMenu /\ s.powered /\ s.active # 0
                    /\ s.cursor = MODE_COUNT + 1) =>
        LET w1 == loop_body(World, Ev("Short", "Ok")).w
        IN  /\ w1 = [World EXCEPT !.s.screen = ScreenSettings, !.s.cursor = 0,
                                  !.s.first_visible = 0]
            /\ \A e1, e2 \in MoveEvents :
                  LET w2 == loop_body(loop_body(w1, e1).w, e2).w
                      w3 == loop_body(w2, Ev("Short", "Back")).w
                  IN  /\ SameButView(World, w2) /\ w2.s.screen = ScreenSettings
                      /\ w3 = [World EXCEPT !.s.cursor = 0, !.s.first_visible = 0]

\* every key but OK on Settings, at any moment of the countdown, changes the
\* view only, and only a short Back leaves the screen
SettingsKeysKeepMode ==
    (AboutToDequeue /\ s.screen = ScreenSettings) =>
        \A ev \in Events :
            (ev.key # "Ok" /\ ev # Ev("Long", "Back")) =>
                LET r == loop_body(World, ev)
                IN  /\ r.pc = "loop" /\ ~r.exit /\ SameButView(World, r.w)
                    /\ r.w.s.screen =
                         IF ev = Ev("Short", "Back") THEN ScreenMenu ELSE ScreenSettings

\* an expiry polled while Settings is shown: Stand by, the screen kept
ExpiryOnSettings ==
    (pc # "done" /\ s.screen = ScreenSettings /\ s.timeout_expired) =>
        LET w == poll_timeout(World)
        IN  /\ w.s.screen = ScreenSettings /\ w.s.powered /\ w.s.active = 0
            /\ ~w.s.pwm_running /\ w.hw.pwm_freq = 0 /\ w.hw.pin = "pp_low"
            /\ w.hw.otg = hw.otg /\ ~w.s.timeout_expired
            /\ ~w.tm.tick.armed /\ ~w.tm.off.armed /\ w.s.remaining_ms = 0

\* C36: opening Settings from the powered Menu while a mode other than Stand
\* by runs, moving the cursor and returning with Back leaves powered, the
\* active mode, the PWM state and frequency, the pin, the 5 V rail,
\* limit_runtime and the armed countdown unchanged: only screen, cursor and
\* first_visible change.  The steps that open and leave Settings change
\* nothing else, the countdown goes on while Settings is shown, and an expiry
\* polled there falls back to Stand by on the same screen.
C36_SettingsVisitKeepsMode ==
    /\ []SettingsRoundTrip
    /\ []SettingsKeysKeepMode
    /\ []ExpiryOnSettings
    /\ [][ /\ (s.screen = ScreenMenu /\ s'.screen = ScreenSettings)
                => SameButView(World, World')
           /\ (s.screen = ScreenSettings /\ s'.screen = ScreenMenu
                 /\ s'.inverter = s.inverter)
                => SameButView(World, World')
           /\ (s.screen = ScreenSettings /\ PolledExpiry)
                => (s'.screen = ScreenSettings /\ s'.active = 0) ]_vars

\* C36 witness: Settings is shown while Mid speed runs; two ticks of its
\* countdown have passed, the cursor is on the last row
C36_Witness ==
    /\ pc = "get" /\ s.screen = ScreenSettings /\ s.powered /\ s.active = 2
    /\ s.cursor = 4 /\ s.pwm_running /\ hw.pwm_freq = 100 /\ hw.pin = "pwm"
    /\ tm.off.armed /\ tm.tick.armed /\ s.remaining_ms = 58000

\* apply_mode(m) twice in a row from a powered state in which the loop waits
\* for an event gives what one apply_mode(m) gives, with the flag down and
\* the countdown at the full time of the mode when the limit is on and at 0
\* otherwise
ApplyModeIdempotent ==
    (AboutToDequeue /\ s.powered) =>
        \A m \in 0 .. MODE_COUNT - 1 :
            LET once == apply_mode(World, m)
                twice == apply_mode(once, m)
                full == kModes(m).default_secs * 1000
            IN  /\ twice.s.active = m /\ once.s.active = m
                /\ twice.s.pwm_running = once.s.pwm_running
                /\ twice.hw.pwm_freq = once.hw.pwm_freq
                /\ twice.hw.pin = once.hw.pin
                /\ twice.tm.led = once.tm.led /\ twice.s.led_timer = once.s.led_timer
                /\ ~twice.s.timeout_expired /\ ~once.s.timeout_expired
                /\ twice.s.remaining_ms = once.s.remaining_ms
                /\ twice.s.remaining_ms = IF s.limit_runtime THEN full ELSE 0
                /\ twice = once

\* OK on the row of the mode that is running, part of its countdown gone:
\* the countdown starts again at the full time
ReselectRestarts ==
    (AboutToDequeue /\ s.screen = ScreenMenu /\ s.powered /\ s.active # 0
                    /\ s.cursor = s.active /\ tm.off.armed) =>
        LET w == loop_body(World, Ev("Short", "Ok")).w
        IN  /\ w.s.active = s.active
            /\ w.s.remaining_ms = kModes(s.active).default_secs * 1000
            /\ w.tm.off.armed /\ w.tm.off.left = w.s.remaining_ms
            /\ w.tm.tick.armed /\ w.tm.tick.left = TICK_MS

\* C37: apply_mode is idempotent: for every mode m and every powered state,
\* apply_mode(m) followed by apply_mode(m) gives the same active mode, PWM
\* state and frequency, pin state, indicator rate, timeout_expired (false)
\* and remaining_ms as one apply_mode(m); selecting the running mode again
\* restarts its countdown at default_secs * 1000.
C37_ApplyModeIdempotent ==
    /\ []ApplyModeIdempotent
    /\ []ReselectRestarts

\* C37 witness: Max speed runs with two ticks of its countdown gone and the
\* cursor on its row, where OK applies it again
C37_Witness ==
    /\ pc = "get" /\ s.screen = ScreenMenu /\ s.powered /\ s.active = 3
    /\ s.cursor = 3 /\ tm.off.armed /\ s.remaining_ms = 28000

=============================================================================
